---- MODULE Spec2Model ----
(***************************************************************************)
(* State-machine model of the fbemitter event library:                     *)
(*   EventEmitter            (src/src/EventEmitter.js)                     *)
(*   EventHolder             (src/unnamed/part_005, lines 23-121)          *)
(*   EventEmitterWithHolding (src/src/EventEmitterWithHolding.js)          *)
(*                                                                         *)
(* The library is synchronous and single threaded; the only interleaving  *)
(* is reentrancy: a listener that is being invoked calls back into the     *)
(* emitter or the holder.  The JavaScript call stack is the variable       *)
(* `stack`; the party that may issue the next API call is the top-level    *)
(* caller (empty stack) or the listener running in the top frame.          *)
(*                                                                         *)
(* JavaScript arrays are 0-based, TLA+ sequences are 1-based: the array    *)
(* key k of the source is position k+1 of the model and key 0 of the model *)
(* stands for `undefined`.                                                 *)
(***************************************************************************)
EXTENDS Integers, Sequences, FiniteSets, TLC

\* ------------------------------------------------------------------ bounds
\* Registrations and held records made in a run, and nested calls in progress.
MaxRegs == 3
MaxHeld == 3
MaxDepth == 2
\* A chain of nested addRetroactiveListener calls alone may go this deep.
MaxChain == 3
\* Registrations and held records made where listeners call back freely.
MaxSubs == 2
MaxHolds == 2

\* ------------------------------------------------------------ value domains
Types == {"T1", "T2", "T3"}
\* The event types used where listeners call back freely.
Types2 == {"T1", "T2"}
Fns == {"f", "g"}
Ctxs == {"undef", "c"}
Args == {"a", "b"}

Undef == "undef"
NoKey == 0

\* A deleted array element (`delete arr[key]`): the slot stays, the value is gone.
Hole == [fn |-> "hole", once |-> FALSE, wctx |-> "undef", rid |-> 0]
HeldHole == [args |-> "hole", hid |-> 0]

VARIABLES
  listenersByType,         \* EventEmitter._listenersByType
  listenerContextsByType,  \* EventEmitter._listenerContextsByType
  currentSubscription,     \* EventEmitter._currentSubscription
  heldEvents,              \* EventHolder._heldEvents
  currentEventKey,         \* EventHolder._currentEventKey
  currentEventToken,       \* EventEmitterWithHolding._currentEventToken
  heldEventsRemovalStack,  \* EventEmitterWithHolding._heldEventsRemovalStack
  heldEventsEmitDepth,     \* EventEmitterWithHolding._heldEventsEmitDepth
  stack,                   \* the JavaScript call stack (emit / replay frames)
  subs,                    \* the ListenerSubscription objects handed out,
                           \* each with the listener and context it was made for (history)
  tokens,                  \* the tokens handed out by holdEvent
  heldLog,                 \* the arguments of each holdEvent call (history)
  firedOnce,               \* the once() registrations invoked so far (history)
  last,                    \* the outcome of the last step (history)
  twin                     \* a second instance, given the same calls (C30)

emitterVars == <<listenersByType, listenerContextsByType, currentSubscription>>
holderVars == <<heldEvents, currentEventKey>>
holdingVars == <<currentEventToken, heldEventsRemovalStack, heldEventsEmitDepth>>
vars == <<listenersByType, listenerContextsByType, currentSubscription,
          heldEvents, currentEventKey, currentEventToken,
          heldEventsRemovalStack, heldEventsEmitDepth, stack, subs, tokens,
          heldLog, firedOnce, last, twin>>

\* ------------------------------------------------------------------ helpers
NoToken == [eventType |-> Undef, index |-> NoKey]

Ev(op, t, rid, hid, arg, ctx) ==
  [op |-> op, eventType |-> t, rid |-> rid, hid |-> hid, arg |-> arg, ctx |-> ctx]

\* `delete arr[key]`: a no-op when the key is undefined or beyond the array.
Delete(arr, key, hole) ==
  IF key \in 1..Len(arr) THEN [arr EXCEPT ![key] = hole] ELSE arr

\* arr[key] of a JavaScript array: undefined when unset.
At(arr, key, hole) ==
  IF key \in 1..Len(arr) THEN arr[key] ELSE hole

\* arr[key] = v on a sparse array: the array grows up to the key.
RECURSIVE SetAt(_, _, _, _)
SetAt(arr, key, v, hole) ==
  IF key <= Len(arr) THEN [arr EXCEPT ![key] = v]
  ELSE SetAt(Append(arr, hole), key, v, hole)

\* Object.keys(listeners): the keys that hold a value, ascending.
RECURSIVE KeysFrom(_, _)
KeysFrom(arr, k) ==
  IF k > Len(arr) THEN <<>>
  ELSE IF arr[k] = Hole THEN KeysFrom(arr, k + 1)
  ELSE <<k>> \o KeysFrom(arr, k + 1)

\* Mutation of ObjectKeys: the keys in descending order.
RECURSIVE ObjectKeysDescending(_)
ObjectKeysDescending(arr) ==
  IF arr = <<>> THEN <<>>
  ELSE IF arr[Len(arr)] = Hole THEN ObjectKeysDescending(SubSeq(arr, 1, Len(arr) - 1))
  ELSE <<Len(arr)>> \o ObjectKeysDescending(SubSeq(arr, 1, Len(arr) - 1))

ObjectKeys(arr) == KeysFrom(arr, 1)

\* The history value of a plain API call; `last` tells the deliveries, the
\* errors and the ends of the calls that run listeners.
Call == Ev("call", Undef, 0, 0, "none", Undef)

Range(s) == {s[i] : i \in 1..Len(s)}

Top == stack[Len(stack)]

\* The state of an EventEmitter with the calls in progress on it, the
\* subscriptions it handed out and its history.
EmitterState ==
  [listenersByType |-> listenersByType,
   listenerContextsByType |-> listenerContextsByType,
   currentSubscription |-> currentSubscription,
   stack |-> stack, subs |-> subs, firedOnce |-> firedOnce, last |-> last]

\* No call is being compared.
NoCall == [op |-> "none", eventType |-> Undef, rid |-> 0, level |-> 0]

\* Who may issue an API call: the top-level caller or the running listener.
CanAct == IF stack = <<>> THEN TRUE ELSE Top.running

CanCall == CanAct /\ Len(stack) < MaxDepth

\* Registrations and held records made so far (every one gets a fresh id).
NumRegs == Len(subs)
NumHeld == Len(tokens)

\* The registrations that are active: in the registry and not deleted.
ActiveRids ==
  UNION {{listenersByType[t][k].rid : k \in 1..Len(listenersByType[t])} : t \in Types} \ {0}

\* The held records that are not released.
HeldHids ==
  UNION {{heldEvents[t][k].hid : k \in 1..Len(heldEvents[t])} : t \in Types} \ {0}

\* An uncaught exception unwinds the call stack: to the top level, or to a
\* listener below that catches it.  No frame that is unwound runs any cleanup
\* (the source has no try/finally).
UnwindTargets == {k \in 0..Len(stack) : IF k = 0 THEN TRUE ELSE stack[k].running}

\* History: where an error was raised, the event type of the pass whose
\* listener made the failing call, or Undef for a call of the top level.
ThrowSite == IF stack = <<>> THEN Undef ELSE Top.eventType

\* ------------------------------------------------------------ initial state
Init ==
  /\ listenersByType = [t \in Types |-> <<>>]
  /\ listenerContextsByType = [t \in Types |-> <<>>]
  /\ currentSubscription = [eventType |-> Undef, key |-> NoKey]
  /\ heldEvents = [t \in Types |-> <<>>]
  /\ currentEventKey = <<>>
  /\ currentEventToken = NoToken
  /\ heldEventsRemovalStack = <<>>
  /\ heldEventsEmitDepth = 0
  /\ stack = <<>>
  /\ subs = <<>>
  /\ tokens = <<>>
  /\ heldLog = <<>>
  /\ firedOnce = {}
  /\ last = Ev("init", Undef, 0, 0, "none", Undef)
  /\ twin = [turn |-> "none", call |-> NoCall, emitter |-> EmitterState,
             heard |-> [t \in Types |-> <<>>]]

\* ============================================================ EventEmitter
\* The array an emit pass iterates.  `emit` keeps the array object it read at
\* its start in a local; removeAllListeners replaces the registry entry, so a
\* pass that is running then keeps iterating the array it started on
\* (frame.detached), which nothing else can reach any more.
FrameListeners(fr) ==
  IF fr.detached THEN fr.arr ELSE listenersByType[fr.eventType]

FrameContexts(fr) ==
  IF ~fr.hasCtx THEN <<>>
  ELSE IF fr.detached THEN fr.ctxs ELSE listenerContextsByType[fr.eventType]

\* Mutation of FrameKeys: the keys are read from the array at every
\* iteration, not once before the loop.
FrameKeysLive(fr) == ObjectKeys(FrameListeners(fr))

\* The keys an emit pass iterates: `keys`, read once before the loop (200).
FrameKeys(fr) == fr.keys

\* new ListenerSubscription(emitter, eventType, key) (72, 224-228); `fn` and
\* `ctx` recall, as history, the listener and the context of the registration.
Subscription(t, key, fn, ctx) ==
  [eventType |-> t, key |-> key, fn |-> fn, ctx |-> ctx]

\* EventEmitter.addListener on the two registries.
AddedListeners(L, t, slot) == [L EXCEPT ![t] = Append(@, slot)]

\* Mutation of AddedContexts: the context is pushed, not stored at the key
\* of the listener.
AddedContextsPushed(C, t, key, ctx) ==
  IF ctx # Undef THEN [C EXCEPT ![t] = Append(@, ctx)] ELSE C

AddedContexts(C, t, key, ctx) ==
  IF ctx # Undef THEN [C EXCEPT ![t] = SetAt(@, key, ctx, Undef)] ELSE C

\* Mutation of RemovedListeners: the removal goes by the function, and takes
\* every registration of the function the slot holds.
RemovedListenersByCallable(L, sub) ==
  IF sub.eventType \in Types /\ sub.key \in 1..Len(L[sub.eventType])
  THEN [L EXCEPT ![sub.eventType] =
          [k \in 1..Len(@) |-> IF @[k].fn = @[sub.key].fn THEN Hole ELSE @[k]]]
  ELSE L

\* Mutation of RemovedListeners: the listener is spliced out of the array,
\* which moves the listeners after it one key down.
RemovedListenersSpliced(L, sub) ==
  IF sub.eventType \in Types /\ sub.key \in 1..Len(L[sub.eventType])
  THEN [L EXCEPT ![sub.eventType] =
          SubSeq(@, 1, sub.key - 1) \o SubSeq(@, sub.key + 1, Len(@))]
  ELSE L

\* Mutation of RemovedListeners: the removal of the last slot of the array
\* shortens the array.
RemovedListenersPopped(L, sub) ==
  IF sub.eventType \in Types /\ L[sub.eventType] # <<>>
  THEN IF sub.key = Len(L[sub.eventType])
       THEN [L EXCEPT ![sub.eventType] = SubSeq(@, 1, Len(@) - 1)]
       ELSE [L EXCEPT ![sub.eventType] = Delete(@, sub.key, Hole)]
  ELSE L

\* EventEmitter.removeSubscription on the two registries.
RemovedListeners(L, sub) ==
  IF sub.eventType \in Types /\ L[sub.eventType] # <<>>
  THEN [L EXCEPT ![sub.eventType] = Delete(@, sub.key, Hole)]
  ELSE L

\* Mutation of RemovedContexts: the context is spliced out of the array,
\* which moves the contexts after it one key down.
RemovedContextsSpliced(C, sub) ==
  IF sub.eventType \in Types /\ sub.key \in 1..Len(C[sub.eventType])
  THEN [C EXCEPT ![sub.eventType] =
          SubSeq(@, 1, sub.key - 1) \o SubSeq(@, sub.key + 1, Len(@))]
  ELSE C

RemovedContexts(C, sub) ==
  IF sub.eventType \in Types /\ C[sub.eventType] # <<>>
  THEN [C EXCEPT ![sub.eventType] = Delete(@, sub.key, Undef)]
  ELSE C

\* removeAllListeners(eventType): the types whose registry entry is dropped.
ClearedTypes(t) == IF t = Undef THEN Types ELSE {t}

\* The emit passes in progress on a dropped array keep that array.
DetachedStack(S, cleared) ==
  IF S = <<>> THEN <<>> ELSE
  [i \in 1..Len(S) |->
     IF S[i].kind = "emit" /\ ~S[i].detached /\ S[i].eventType \in cleared
     THEN [S[i] EXCEPT !.detached = TRUE,
                       !.arr = listenersByType[S[i].eventType],
                       !.ctxs = listenerContextsByType[S[i].eventType]]
     ELSE S[i]]

AddListener(t, fn, ctx) ==
  /\ CanAct
  /\ NumRegs < MaxRegs
  /\ LET key == Len(listenersByType[t]) + 1
         slot == [fn |-> fn, once |-> FALSE, wctx |-> Undef, rid |-> NumRegs + 1]
     IN /\ listenersByType' = AddedListeners(listenersByType, t, slot)
        /\ listenerContextsByType' = AddedContexts(listenerContextsByType, t, key, ctx)
        /\ subs' = Append(subs, Subscription(t, key, fn, ctx))
        /\ last' = Call
  /\ UNCHANGED <<currentSubscription, holderVars, holdingVars, stack, tokens, heldLog, firedOnce, twin>>

\* once(): addListener of a wrapper, registered without context; the wrapper
\* keeps the listener and the context in its closure.
Once(t, fn, ctx) ==
  /\ CanAct
  /\ NumRegs < MaxRegs
  /\ LET key == Len(listenersByType[t]) + 1
         slot == [fn |-> fn, once |-> TRUE, wctx |-> ctx, rid |-> NumRegs + 1]
     IN /\ listenersByType' = AddedListeners(listenersByType, t, slot)
        /\ subs' = Append(subs, Subscription(t, key, fn, ctx))
        /\ last' = Call
  /\ UNCHANGED <<listenerContextsByType, currentSubscription, holderVars,
                 holdingVars, stack, tokens, heldLog, firedOnce, twin>>

RemoveAllListeners(t) ==
  /\ CanAct
  /\ listenersByType' = [u \in Types |->
        IF u \in ClearedTypes(t) THEN <<>> ELSE listenersByType[u]]
  /\ listenerContextsByType' = [u \in Types |->
        IF u \in ClearedTypes(t) THEN <<>> ELSE listenerContextsByType[u]]
  /\ stack' = DetachedStack(stack, ClearedTypes(t))
  /\ last' = Call
  /\ UNCHANGED <<currentSubscription, holderVars, holdingVars, subs, tokens, heldLog, firedOnce, twin>>

\* The function stored in a slot: the listener itself, or the wrapper that
\* once() made around it.
Callable(slot) == [fn |-> slot.fn, once |-> slot.once]

\* Mutation of Listeners: a copy of the array, deleted slots included.
ListenersUnfiltered(t) ==
  [i \in 1..Len(listenersByType[t]) |-> Callable(listenersByType[t][i])]

\* EventEmitter.listeners (168-173): filter() visits the slots that exist, in
\* index order; no array for the type gives the empty array.
Listeners(t) ==
  LET present == SelectSeq(listenersByType[t], LAMBDA slot : slot # Hole)
  IN [i \in 1..Len(present) |-> Callable(present[i])]

\* History: the registrations behind the result of listeners().
ListenerRids(t) ==
  LET present == SelectSeq(listenersByType[t], LAMBDA slot : slot # Hole)
  IN [i \in 1..Len(present) |-> present[i].rid]

\* The invariant() of removeCurrentListener fails: the error propagates.
ThrowNoCurrentListener ==
  /\ \E k \in UnwindTargets : stack' = SubSeq(stack, 1, k)
  /\ last' = Ev("throw", ThrowSite, 0, 0, "none", Undef)
  /\ UNCHANGED <<emitterVars, holderVars, holdingVars, subs, tokens, heldLog, firedOnce, twin>>

\* EventEmitter.removeCurrentListener, past its invariant.
DoRemoveCurrentListener ==
  /\ listenersByType' = RemovedListeners(listenersByType, currentSubscription)
  /\ listenerContextsByType' = RemovedContexts(listenerContextsByType, currentSubscription)
  /\ last' = Call
  /\ UNCHANGED <<currentSubscription, holderVars, holdingVars, stack, subs, tokens, heldLog, firedOnce, twin>>

RemoveCurrentListener ==
  /\ CanAct
  /\ IF currentSubscription.key = NoKey
     THEN ThrowNoCurrentListener
     ELSE DoRemoveCurrentListener

\* ListenerSubscription.remove() on the subscription of registration r.
SubscriptionRemove(r) ==
  /\ CanAct
  /\ r \in 1..NumRegs
  /\ listenersByType' = RemovedListeners(listenersByType, subs[r])
  /\ listenerContextsByType' = RemovedContexts(listenerContextsByType, subs[r])
  /\ last' = Call
  /\ UNCHANGED <<currentSubscription, holderVars, holdingVars, stack, subs, tokens, heldLog, firedOnce, twin>>

\* The registrations in the slots `keys` of a listener array.
RidsAt(arr, keys) == [i \in 1..Len(keys) |-> arr[keys[i]].rid]

\* The frame of an emit call that found listeners (EventEmitter.emit 196-200).
\* `hold` tells that emitAndHold made the call, for the record `hid`.  `rid` is
\* the registration whose listener is running.  History: `live0` are the
\* registrations active at the start, `seen` the ones invoked so far.
EmitFrame(t, arg, hold, hid) ==
  [kind |-> "emit", eventType |-> t, arg |-> arg, hold |-> hold,
   keys |-> ObjectKeys(listenersByType[t]), ii |-> 1, running |-> FALSE,
   detached |-> FALSE, arr |-> <<>>, ctxs |-> <<>>,
   hasCtx |-> listenerContextsByType[t] # <<>>, rid |-> 0, hid |-> hid,
   live0 |-> RidsAt(listenersByType[t], ObjectKeys(listenersByType[t])),
   seen |-> <<>>]

\* EventEmitter.emit up to its loop, on the stack and the cursor.
EmitCall(t, arg, hold, hid) ==
  IF listenersByType[t] = <<>>
  THEN /\ UNCHANGED <<stack, currentSubscription>>
  ELSE /\ Len(stack) < MaxDepth
       /\ stack' = Append(stack, EmitFrame(t, arg, hold, hid))
       /\ currentSubscription' = [currentSubscription EXCEPT !.eventType = t]

\* Mutation of Emit: the event is held as well, as emitAndHold does without
\* its token.
EmitRetaining(t, arg) ==
  /\ CanAct
  /\ NumHeld < MaxHeld
  /\ EmitCall(t, arg, FALSE, 0)
  /\ heldEvents' = [heldEvents EXCEPT
                      ![t] = Append(@, [args |-> arg, hid |-> NumHeld + 1])]
  /\ tokens' = Append(tokens, [eventType |-> t, index |-> Len(heldEvents[t]) + 1])
  /\ heldLog' = Append(heldLog, arg)
  /\ last' = Call
  /\ UNCHANGED <<listenersByType, listenerContextsByType, currentEventKey,
                 holdingVars, subs, firedOnce, twin>>

\* EventEmitter.emit called with at most five data arguments: the invariant
\* on the sixth (190-193) passes; EmitSixth is the call that fails it.
Emit(t, arg) ==
  /\ CanAct
  /\ EmitCall(t, arg, FALSE, 0)
  /\ last' = Call
  /\ UNCHANGED <<listenersByType, listenerContextsByType, holderVars,
                 holdingVars, subs, tokens, heldLog, firedOnce, twin>>

\* History: the stack when the listener of registration r is called by emit
\* with held event h (0: with an event that is not held); the replays in
\* progress for r take note of it.
DeliveredLive(r, h) ==
  [i \in 1..Len(stack) |->
     IF stack[i].kind = "replay" /\ h > 0
     THEN IF stack[i].retro /\ stack[i].rid = r
          THEN [stack[i] EXCEPT !.live = @ \cup {h}]
          ELSE stack[i]
     ELSE stack[i]]

\* One iteration of emit's loop (201-215): the listener at the next key is
\* invoked, or skipped when it was removed meanwhile.  A once() wrapper
\* starts with emitter.removeCurrentListener().
EmitStep ==
  /\ stack # <<>>
  /\ Top.kind = "emit" /\ ~Top.running /\ Top.ii <= Len(FrameKeys(Top))
  /\ LET fr == Top
         key == FrameKeys(fr)[fr.ii]
         listener == At(FrameListeners(fr), key, Hole)
         context == At(FrameContexts(fr), key, Undef)
         cur == [currentSubscription EXCEPT !.key = key]
     IN IF listener # Hole
        THEN /\ currentSubscription' = cur
             /\ stack' = [DeliveredLive(listener.rid, fr.hid) EXCEPT ![Len(stack)] =
                            [fr EXCEPT !.running = TRUE, !.rid = listener.rid,
                                       !.seen = Append(@, listener.rid)]]
             /\ firedOnce' = IF listener.once THEN firedOnce \cup {listener.rid}
                             ELSE firedOnce
             /\ listenersByType' =
                  IF listener.once THEN RemovedListeners(listenersByType, cur)
                  ELSE listenersByType
             /\ listenerContextsByType' =
                  IF listener.once THEN RemovedContexts(listenerContextsByType, cur)
                  ELSE listenerContextsByType
             /\ last' = Ev("invoke", fr.eventType, listener.rid, 0, fr.arg,
                           IF listener.once THEN listener.wctx ELSE context)
        ELSE /\ stack' = [stack EXCEPT ![Len(stack)] = [fr EXCEPT !.ii = fr.ii + 1]]
             /\ last' = Ev("skip", fr.eventType, 0, 0, "none", Undef)
             /\ UNCHANGED <<emitterVars, firedOnce, twin>>
  /\ UNCHANGED <<holderVars, holdingVars, subs, tokens, heldLog, twin>>

\* Mutation of EmitEnd: the current subscription is not reset when the pass
\* is over.
EmitEndKeepsCurrent ==
  /\ stack # <<>>
  /\ Top.kind = "emit" /\ ~Top.running /\ Top.ii > Len(FrameKeys(Top))
  /\ currentEventToken' = IF Top.hold THEN NoToken ELSE currentEventToken
  /\ stack' = SubSeq(stack, 1, Len(stack) - 1)
  /\ last' = [op |-> IF Top.hold THEN "emitAndHoldEnd" ELSE "emitEnd",
              eventType |-> Top.eventType, hid |-> Top.hid, arg |-> Top.arg,
              live0 |-> Top.live0, seen |-> Top.seen]
  /\ UNCHANGED <<emitterVars, holderVars,
                 heldEventsRemovalStack, heldEventsEmitDepth, subs, tokens, heldLog, firedOnce, twin>>

\* The end of emit (217-218), and of emitAndHold (155) when it made the call.
EmitEnd ==
  /\ stack # <<>>
  /\ Top.kind = "emit" /\ ~Top.running /\ Top.ii > Len(FrameKeys(Top))
  /\ currentSubscription' = [eventType |-> Undef, key |-> NoKey]
  /\ currentEventToken' = IF Top.hold THEN NoToken ELSE currentEventToken
  /\ stack' = SubSeq(stack, 1, Len(stack) - 1)
  /\ last' = [op |-> IF Top.hold THEN "emitAndHoldEnd" ELSE "emitEnd",
              eventType |-> Top.eventType, hid |-> Top.hid, arg |-> Top.arg,
              live0 |-> Top.live0, seen |-> Top.seen]
  /\ UNCHANGED <<listenersByType, listenerContextsByType, holderVars,
                 heldEventsRemovalStack, heldEventsEmitDepth, subs, tokens, heldLog, firedOnce, twin>>

\* Mutation of ListenerReturn: emitToListener does not pop its cursor after
\* the listener.
ListenerReturnKeepsCursor ==
  /\ stack # <<>>
  /\ Top.running
  /\ IF Top.kind = "emit"
     THEN stack' = [stack EXCEPT ![Len(stack)] =
                      [Top EXCEPT !.running = FALSE, !.ii = Top.ii + 1, !.rid = 0]]
     ELSE stack' = [stack EXCEPT ![Len(stack)] =
                      [Top EXCEPT !.running = FALSE, !.idx = Top.idx + 1, !.hid = 0]]
  /\ last' = Ev("return", Top.eventType, 0, 0, "none", Undef)
  /\ UNCHANGED <<emitterVars, holderVars, holdingVars, subs, tokens, heldLog, firedOnce, twin>>

\* The running listener returns to the loop that invoked it: emit's loop
\* goes to the next key; emitToListener pops its cursor (part_005 83).
ListenerReturn ==
  /\ stack # <<>>
  /\ Top.running
  /\ IF Top.kind = "emit"
     THEN /\ stack' = [stack EXCEPT ![Len(stack)] =
                         [Top EXCEPT !.running = FALSE, !.ii = Top.ii + 1, !.rid = 0]]
          /\ UNCHANGED currentEventKey
     ELSE /\ stack' = [stack EXCEPT ![Len(stack)] =
                         [Top EXCEPT !.running = FALSE, !.idx = Top.idx + 1, !.hid = 0]]
          /\ currentEventKey' = SubSeq(currentEventKey, 1, Len(currentEventKey) - 1)
  /\ last' = Ev("return", Top.eventType, 0, 0, "none", Undef)
  /\ UNCHANGED <<emitterVars, heldEvents, holdingVars, subs, tokens, heldLog, firedOnce, twin>>

NextE ==
  \/ \E t \in Types2 : AddListener(t, "f", Undef)
  \/ \E t \in Types2 : Once(t, "f", Undef)
  \/ \E t \in Types2 \cup {Undef} : RemoveAllListeners(t)
  \/ RemoveCurrentListener
  \/ \E r \in 1..MaxRegs : SubscriptionRemove(r)
  \/ \E t \in Types2 : Emit(t, "a")
  \/ EmitStep
  \/ EmitEnd
  \/ ListenerReturn

SpecE == Init /\ [][NextE]_vars

\* ============================================================== EventHolder
\* The array a replay iterates: forEach keeps the array object it was called
\* on; releaseEventType replaces the holder's entry, so a replay in progress
\* keeps iterating the array it started on (frame.detached).
FrameHeld(fr) ==
  IF fr.detached THEN fr.arr ELSE heldEvents[fr.eventType]

\* Mutation of FrameLength: forEach reads the length of the array at each
\* iteration.
FrameLengthLive(fr) == Len(FrameHeld(fr))

\* The number of indexes a replay visits: forEach reads the length of the
\* array once, before the first iteration.
FrameLength(fr) == fr.len

\* The records of a type that are held.
HeldOfType(t) ==
  {heldEvents[t][k].hid : k \in {j \in 1..Len(heldEvents[t]) : heldEvents[t][j] # HeldHole}}

\* Mutation of ReleasedEvents: the record is spliced out of the array, which
\* moves the records after it one index down.
ReleasedEventsSpliced(H, token) ==
  IF token.eventType \in Types /\ token.index \in 1..Len(H[token.eventType])
  THEN [H EXCEPT ![token.eventType] =
          SubSeq(@, 1, token.index - 1) \o SubSeq(@, token.index + 1, Len(@))]
  ELSE H

\* EventHolder.releaseEvent on the held records.
ReleasedEvents(H, token) ==
  IF token.eventType \in Types
  THEN [H EXCEPT ![token.eventType] = Delete(@, token.index, HeldHole)]
  ELSE H

\* The replays in progress on a replaced array keep that array.
DetachedReplays(S, t) ==
  IF S = <<>> THEN <<>> ELSE
  [i \in 1..Len(S) |->
     IF S[i].kind = "replay" /\ ~S[i].detached /\ S[i].eventType = t
     THEN [S[i] EXCEPT !.detached = TRUE, !.arr = heldEvents[t]]
     ELSE S[i]]

\* EventHolder.holdEvent on the held records, and the token it returns.
HeldToken(t) == [eventType |-> t, index |-> Len(heldEvents[t]) + 1]

\* Mutation of HeldMore: the record is stored in the first released slot of
\* the array, when there is one.
HeldMoreInFreeSlot(t, arg) ==
  LET free == {i \in 1..Len(heldEvents[t]) : heldEvents[t][i] = HeldHole}
      rec == [args |-> arg, hid |-> NumHeld + 1]
  IN IF free = {} THEN [heldEvents EXCEPT ![t] = Append(@, rec)]
     ELSE [heldEvents EXCEPT ![t][CHOOSE i \in free : \A j \in free : i <= j] = rec]

HeldMore(t, arg) ==
  [heldEvents EXCEPT ![t] = Append(@, [args |-> arg, hid |-> NumHeld + 1])]

HoldEvent(t, arg) ==
  /\ CanAct
  /\ NumHeld < MaxHeld
  /\ heldEvents' = HeldMore(t, arg)
  /\ tokens' = Append(tokens, HeldToken(t))
  /\ heldLog' = Append(heldLog, arg)
  /\ last' = Call
  /\ UNCHANGED <<emitterVars, currentEventKey, holdingVars, stack, subs, firedOnce, twin>>

\* Mutation of ReplayFrame: the iteration starts at the second record.
ReplayFrameFromSecond(t, fn, ctx, retro, rid, sub) ==
  [kind |-> "replay", eventType |-> t, fn |-> fn, ctx |-> ctx,
   len |-> Len(heldEvents[t]), idx |-> 2, running |-> FALSE,
   detached |-> FALSE, arr |-> <<>>, retro |-> retro, rid |-> rid,
   sub |-> sub, hid |-> 0, held0 |-> NumHeld, seen |-> <<>>,
   hids0 |-> HeldOfType(t), live |-> {}, asked |-> 0]

\* Mutation of ReplayFrame: the replay iterates a copy of the array, made
\* when it starts.
ReplayFrameOfCopy(t, fn, ctx, retro, rid, sub) ==
  [kind |-> "replay", eventType |-> t, fn |-> fn, ctx |-> ctx,
   len |-> Len(heldEvents[t]), idx |-> 1, running |-> FALSE,
   detached |-> TRUE, arr |-> heldEvents[t], retro |-> retro, rid |-> rid,
   sub |-> sub, hid |-> 0, held0 |-> NumHeld, seen |-> <<>>,
   hids0 |-> HeldOfType(t), live |-> {}, asked |-> 0]

\* Mutation of ReplayFrame: a replay started while a record of the same type
\* is being delivered goes on from that record, as if the cursor were shared.
ReplayFrameFromCursor(t, fn, ctx, retro, rid, sub) ==
  [kind |-> "replay", eventType |-> t, fn |-> fn, ctx |-> ctx,
   len |-> Len(heldEvents[t]),
   idx |-> IF currentEventKey = <<>> THEN 1
           ELSE IF currentEventKey[Len(currentEventKey)].eventType = t
                THEN currentEventKey[Len(currentEventKey)].index + 1
                ELSE 1,
   running |-> FALSE,
   detached |-> FALSE, arr |-> <<>>, retro |-> retro, rid |-> rid,
   sub |-> sub, hid |-> 0, held0 |-> NumHeld, seen |-> <<>>,
   hids0 |-> HeldOfType(t), live |-> {}, asked |-> 0]

\* The frame of an emitToListener call (part_005 70-74).  forEach reads the
\* length once, at its start.  `retro` tells that addRetroactiveListener made
\* the call, for the registration `rid` with the subscription `sub`; `hid` is
\* the record being delivered.  History: `held0` counts the records held
\* before the call, `seen` are the records delivered so far, `hids0` are the records of the type held before the call, `live` the held
\* events that emit delivered to the registration meanwhile, `asked` is the
\* number of records delivered when the listener first called
\* removeCurrentListener during this replay (0: it did not).
ReplayFrame(t, fn, ctx, retro, rid, sub) ==
  [kind |-> "replay", eventType |-> t, fn |-> fn, ctx |-> ctx,
   len |-> Len(heldEvents[t]), idx |-> 1, running |-> FALSE,
   detached |-> FALSE, arr |-> <<>>, retro |-> retro, rid |-> rid,
   sub |-> sub, hid |-> 0, held0 |-> NumHeld, seen |-> <<>>,
   hids0 |-> HeldOfType(t), live |-> {}, asked |-> 0]

\* Mutation of EmitToListener: without the test of lines 71-73, forEach is
\* called on undefined for a type that has no array, which is an error.
EmitToListenerUnguarded(t, fn, ctx) ==
  /\ CanCall
  /\ IF heldEvents[t] = <<>>
     THEN /\ \E k \in UnwindTargets : stack' = SubSeq(stack, 1, k)
          /\ last' = Ev("throw", ThrowSite, 0, 0, "none", Undef)
     ELSE /\ stack' = Append(stack, ReplayFrame(t, fn, ctx, FALSE, 0, Subscription(Undef, NoKey, fn, ctx)))
          /\ last' = Call
  /\ UNCHANGED <<emitterVars, holderVars, holdingVars, subs, tokens, heldLog, firedOnce, twin>>

\* EventHolder.emitToListener up to forEach (69-74).
EmitToListener(t, fn, ctx) ==
  /\ CanCall
  /\ stack' = Append(stack, ReplayFrame(t, fn, ctx, FALSE, 0, Subscription(Undef, NoKey, fn, ctx)))
  /\ last' = Call
  /\ UNCHANGED <<emitterVars, holderVars, holdingVars, subs, tokens, heldLog, firedOnce, twin>>

\* Mutation of ReplayStep: the listener is called as a plain function,
\* without the context.
ReplayStepWithoutContext ==
  /\ stack # <<>>
  /\ Top.kind = "replay" /\ ~Top.running /\ Top.idx <= FrameLength(Top)
  /\ LET fr == Top
         eventHeld == At(FrameHeld(fr), fr.idx, HeldHole)
     IN IF eventHeld # HeldHole
        THEN /\ currentEventKey' = Append(currentEventKey,
                                          [eventType |-> fr.eventType, index |-> fr.idx])
             /\ stack' = [stack EXCEPT ![Len(stack)] =
                            [fr EXCEPT !.running = TRUE, !.hid = eventHeld.hid,
                                       !.seen = Append(@, eventHeld.hid)]]
             /\ last' = Ev("replay", fr.eventType, fr.rid, eventHeld.hid,
                           eventHeld.args, Undef)
        ELSE /\ stack' = [stack EXCEPT ![Len(stack)] = [fr EXCEPT !.idx = fr.idx + 1]]
             /\ last' = Ev("skip", fr.eventType, 0, 0, "none", Undef)
             /\ UNCHANGED currentEventKey
  /\ UNCHANGED <<emitterVars, heldEvents, holdingVars, subs, tokens, heldLog, firedOnce, twin>>

\* One iteration of forEach in emitToListener (74-84): the record at the next
\* index is delivered to the listener, or skipped when it was released.
ReplayStep ==
  /\ stack # <<>>
  /\ Top.kind = "replay" /\ ~Top.running /\ Top.idx <= FrameLength(Top)
  /\ LET fr == Top
         eventHeld == At(FrameHeld(fr), fr.idx, HeldHole)
     IN IF eventHeld # HeldHole
        THEN /\ currentEventKey' = Append(currentEventKey,
                                          [eventType |-> fr.eventType, index |-> fr.idx])
             /\ stack' = [stack EXCEPT ![Len(stack)] =
                            [fr EXCEPT !.running = TRUE, !.hid = eventHeld.hid,
                                       !.seen = Append(@, eventHeld.hid)]]
             /\ last' = Ev("replay", fr.eventType, fr.rid, eventHeld.hid,
                           eventHeld.args, fr.ctx)
        ELSE /\ stack' = [stack EXCEPT ![Len(stack)] = [fr EXCEPT !.idx = fr.idx + 1]]
             /\ last' = Ev("skip", fr.eventType, 0, 0, "none", Undef)
             /\ UNCHANGED currentEventKey
  /\ UNCHANGED <<emitterVars, heldEvents, holdingVars, subs, tokens, heldLog, firedOnce, twin>>

\* Mutation of RemovalRequested: the flag is read after the pop, which yields
\* the flag of the enclosing addRetroactiveListener call.
RemovalRequestedAfterPop ==
  LET n == Len(heldEventsRemovalStack) - 1
  IN IF n > 0 THEN heldEventsRemovalStack[n] ELSE FALSE

\* The flag addRetroactiveListener reads once the replay is over (93).
RemovalRequested ==
  LET n == Len(heldEventsRemovalStack)
  IN IF n > 0 THEN heldEventsRemovalStack[n] ELSE FALSE

\* The end of emitToListener and, when addRetroactiveListener made the call,
\* the rest of addRetroactiveListener (EventEmitterWithHolding.js 91-98).
ReplayEnd ==
  /\ stack # <<>>
  /\ Top.kind = "replay" /\ ~Top.running /\ Top.idx > FrameLength(Top)
  /\ stack' = SubSeq(stack, 1, Len(stack) - 1)
  /\ IF Top.retro
     THEN LET n == Len(heldEventsRemovalStack)
              remove == RemovalRequested
          IN /\ heldEventsEmitDepth' = heldEventsEmitDepth - 1
             /\ listenersByType' =
                  IF remove THEN RemovedListeners(listenersByType, Top.sub)
                  ELSE listenersByType
             /\ listenerContextsByType' =
                  IF remove THEN RemovedContexts(listenerContextsByType, Top.sub)
                  ELSE listenerContextsByType
             /\ heldEventsRemovalStack' = SubSeq(heldEventsRemovalStack, 1, n - 1)
             /\ last' = [op |-> "addRetroactiveListenerEnd", eventType |-> Top.eventType,
                         rid |-> Top.rid, removed |-> remove, asked |-> Top.asked,
                         seen |-> Top.seen]
     ELSE /\ last' = [op |-> "emitToListenerEnd", eventType |-> Top.eventType,
                      seen |-> Top.seen]
          /\ UNCHANGED <<listenersByType, listenerContextsByType,
                         heldEventsRemovalStack, heldEventsEmitDepth>>
  /\ UNCHANGED <<currentSubscription, holderVars, currentEventToken, subs, tokens, heldLog, firedOnce, twin>>

\* The invariant() of EventHolder.releaseCurrentEvent fails.
ThrowNoCurrentEvent ==
  /\ \E k \in UnwindTargets : stack' = SubSeq(stack, 1, k)
  /\ last' = Ev("throw", ThrowSite, 0, 0, "none", Undef)
  /\ UNCHANGED <<emitterVars, holderVars, holdingVars, subs, tokens, heldLog, firedOnce, twin>>

\* Mutation of DoReleaseCurrentEvent: the bottom of the cursor stack is
\* released, not its top.
DoReleaseOutermostEvent ==
  /\ heldEvents' = ReleasedEvents(heldEvents, currentEventKey[1])
  /\ last' = Call
  /\ UNCHANGED <<emitterVars, currentEventKey, holdingVars, stack, subs, tokens, heldLog, firedOnce, twin>>

\* EventHolder.releaseCurrentEvent, past its invariant.
DoReleaseCurrentEvent ==
  /\ heldEvents' = ReleasedEvents(heldEvents, currentEventKey[Len(currentEventKey)])
  /\ last' = Call
  /\ UNCHANGED <<emitterVars, currentEventKey, holdingVars, stack, subs, tokens, heldLog, firedOnce, twin>>

ReleaseCurrentEvent ==
  /\ CanAct
  /\ IF Len(currentEventKey) = 0
     THEN ThrowNoCurrentEvent
     ELSE DoReleaseCurrentEvent

\* Mutation of ReleaseEvent: the release of a slot that is already empty
\* fails, as a check of the slot before the delete would make it.
ReleaseEventChecked(h) ==
  /\ CanAct
  /\ h \in 1..NumHeld
  /\ IF At(heldEvents[tokens[h].eventType], tokens[h].index, HeldHole) = HeldHole
     THEN ThrowNoCurrentEvent
     ELSE /\ heldEvents' = ReleasedEvents(heldEvents, tokens[h])
          /\ last' = Call
          /\ UNCHANGED <<emitterVars, currentEventKey, holdingVars, stack, subs, tokens, heldLog, firedOnce, twin>>

\* EventHolder.releaseEvent with the token of record h.
ReleaseEvent(h) ==
  /\ CanAct
  /\ h \in 1..NumHeld
  /\ heldEvents' = ReleasedEvents(heldEvents, tokens[h])
  /\ last' = Call
  /\ UNCHANGED <<emitterVars, currentEventKey, holdingVars, stack, subs, tokens, heldLog, firedOnce, twin>>

\* Mutation of ReleaseEventType: the records of every type are discarded.
ReleaseEveryEventType(t) ==
  /\ CanAct
  /\ heldEvents' = [u \in Types |-> <<>>]
  /\ stack' = DetachedReplays(stack, t)
  /\ last' = Call
  /\ UNCHANGED <<emitterVars, currentEventKey, holdingVars, subs, tokens, heldLog, firedOnce, twin>>

\* EventHolder.releaseEventType (118-120), which releaseHeldEventType of
\* EventEmitterWithHolding calls (173-175).
ReleaseEventType(t) ==
  /\ CanAct
  /\ heldEvents' = [heldEvents EXCEPT ![t] = <<>>]
  /\ stack' = DetachedReplays(stack, t)
  /\ last' = Call
  /\ UNCHANGED <<emitterVars, currentEventKey, holdingVars, subs, tokens, heldLog, firedOnce, twin>>

NextH ==
  \/ \E t \in Types2 : NumHeld < MaxHolds /\ HoldEvent(t, "a")
  \/ \E t \in Types2 : EmitToListener(t, "f", Undef)
  \/ ReplayStep
  \/ ReplayEnd
  \/ ListenerReturn
  \/ ReleaseCurrentEvent
  \/ \E h \in 1..MaxHolds : ReleaseEvent(h)
  \/ \E t \in Types2 : ReleaseEventType(t)

SpecH == Init /\ [][NextH]_vars

\* The listener running in the top frame was invoked by an emit pass.
LiveListenerRuns ==
  /\ stack # <<>>
  /\ Top.kind = "emit"
  /\ Top.running

\* The listener running in the top frame is being replayed a held record.
ReplayedListenerRuns ==
  /\ stack # <<>>
  /\ Top.kind = "replay"
  /\ Top.running

\* ================================================== EventEmitterWithHolding
\* addListener, once, removeAllListeners and emit delegate to the emitter and
\* releaseHeldEventType to the holder: they are the actions above.

\* Every call in progress is the replay of an addRetroactiveListener call.
RetroactiveChain ==
  \A i \in 1..Len(stack) : stack[i].kind = "replay" /\ stack[i].retro

\* addRetroactiveListener up to the replay (83-90).
AddRetroactiveListener(t, fn, ctx) ==
  /\ CanAct
  /\ Len(stack) < (IF RetroactiveChain THEN MaxChain ELSE MaxDepth)
  /\ NumRegs < MaxRegs
  /\ LET key == Len(listenersByType[t]) + 1
         slot == [fn |-> fn, once |-> FALSE, wctx |-> Undef, rid |-> NumRegs + 1]
         sub == Subscription(t, key, fn, ctx)
     IN /\ listenersByType' = AddedListeners(listenersByType, t, slot)
        /\ listenerContextsByType' = AddedContexts(listenerContextsByType, t, key, ctx)
        /\ subs' = Append(subs, sub)
        /\ stack' = Append(stack, ReplayFrame(t, fn, ctx, TRUE, NumRegs + 1, sub))
        /\ last' = Call
  /\ heldEventsRemovalStack' = Append(heldEventsRemovalStack, FALSE)
  /\ heldEventsEmitDepth' = heldEventsEmitDepth + 1
  /\ UNCHANGED <<currentSubscription, holderVars, currentEventToken, tokens, heldLog, firedOnce, twin>>

\* EventEmitterWithHolding.removeCurrentListener (111-118).
HoldingRemoveCurrentListener ==
  /\ CanAct
  /\ IF heldEventsEmitDepth # 0
     THEN /\ heldEventsRemovalStack' =
               [heldEventsRemovalStack EXCEPT ![Len(heldEventsRemovalStack)] = TRUE]
          /\ stack' = IF stack # <<>> /\ Top.kind = "replay"
                      THEN [stack EXCEPT ![Len(stack)].asked =
                                     IF @ = 0 THEN Len(Top.seen) ELSE @]
                      ELSE stack
          /\ last' = Call
          /\ UNCHANGED <<emitterVars, holderVars, currentEventToken,
                         heldEventsEmitDepth, subs, tokens, heldLog, firedOnce, twin>>
     ELSE IF currentSubscription.key = NoKey
          THEN ThrowNoCurrentListener
          ELSE DoRemoveCurrentListener

\* EventEmitterWithHolding.emitAndHold with at most five data arguments, up to
\* emit's loop (149-154); when emit finds no listeners the call is complete
\* and the token is cleared (155).  EmitAndHoldSixth is the call with six.
EmitAndHold(t, arg) ==
  /\ CanAct
  /\ NumHeld < MaxHeld
  /\ heldEvents' = HeldMore(t, arg)
  /\ tokens' = Append(tokens, HeldToken(t))
  /\ heldLog' = Append(heldLog, arg)
  /\ EmitCall(t, arg, TRUE, NumHeld + 1)
  /\ currentEventToken' = IF listenersByType[t] = <<>> THEN NoToken ELSE HeldToken(t)
  /\ last' = Call
  /\ UNCHANGED <<listenersByType, listenerContextsByType, currentEventKey,
                 heldEventsRemovalStack, heldEventsEmitDepth, subs, firedOnce, twin>>

\* Mutation of HoldingReleaseCurrentEvent: a release made during a replay
\* also asks for the removal of the listener that is replayed to.
HoldingReleaseAndRemove ==
  /\ CanAct
  /\ IF currentEventToken # NoToken
     THEN /\ heldEvents' = ReleasedEvents(heldEvents, currentEventToken)
          /\ last' = Call
          /\ UNCHANGED <<emitterVars, currentEventKey, holdingVars, stack, subs, tokens, heldLog, firedOnce, twin>>
     ELSE IF heldEventsEmitDepth # 0
          THEN IF Len(currentEventKey) = 0
               THEN ThrowNoCurrentEvent
               ELSE /\ heldEvents' = ReleasedEvents(heldEvents, currentEventKey[Len(currentEventKey)])
                    /\ heldEventsRemovalStack' =
                         [heldEventsRemovalStack EXCEPT ![Len(heldEventsRemovalStack)] = TRUE]
                    /\ last' = Call
                    /\ UNCHANGED <<emitterVars, currentEventKey, currentEventToken,
                                   heldEventsEmitDepth, stack, subs, tokens, heldLog, firedOnce, twin>>
          ELSE /\ last' = Call
               /\ UNCHANGED <<emitterVars, holderVars, holdingVars, stack, subs, tokens, heldLog, firedOnce, twin>>

\* EventEmitterWithHolding.releaseCurrentEvent (161-167).
HoldingReleaseCurrentEvent ==
  /\ CanAct
  /\ IF currentEventToken # NoToken
     THEN /\ heldEvents' = ReleasedEvents(heldEvents, currentEventToken)
          /\ last' = Call
          /\ UNCHANGED <<emitterVars, currentEventKey, holdingVars, stack, subs, tokens, heldLog, firedOnce, twin>>
     ELSE IF heldEventsEmitDepth # 0
          THEN IF Len(currentEventKey) = 0
               THEN ThrowNoCurrentEvent
               ELSE DoReleaseCurrentEvent
          ELSE /\ last' = Call
               /\ UNCHANGED <<emitterVars, holderVars, holdingVars, stack, subs, tokens, heldLog, firedOnce, twin>>

\* The methods of EventEmitterWithHolding that forward to the emitter it
\* wraps: addListener (52-54), once (59-61), removeAllListeners (104-106),
\* listeners (123-125) and emit (130-132).
HoldingAddListener(t, fn, ctx) == AddListener(t, fn, ctx)

HoldingOnce(t, fn, ctx) == Once(t, fn, ctx)

\* Mutation of HoldingRemoveAllListeners: the event type is not passed on.
HoldingRemoveEveryListener(t) == RemoveAllListeners(Undef)

HoldingRemoveAllListeners(t) == RemoveAllListeners(t)

HoldingListeners(t) == Listeners(t)

HoldingEmit(t, arg) == Emit(t, arg)

\* The invariant() of emit fails (EventEmitter.js 190-193): the error
\* propagates.
ThrowTooManyArguments ==
  /\ \E k \in UnwindTargets : stack' = SubSeq(stack, 1, k)
  /\ last' = Ev("throw", ThrowSite, 0, 0, "none", Undef)

\* EventEmitter.emit called with a sixth data argument that is defined: the
\* invariant comes first (190-193).
EmitSixth(t, arg) ==
  /\ CanAct
  /\ ThrowTooManyArguments
  /\ UNCHANGED <<emitterVars, holderVars, holdingVars, subs, tokens, heldLog, firedOnce, twin>>

\* EventEmitterWithHolding.emitAndHold called with a sixth data argument that
\* is defined: holdEvent stores the record and the token is assigned
\* (150-153), then emit fails (154) and line 155 is not reached.
EmitAndHoldSixth(t, arg) ==
  /\ CanAct
  /\ NumHeld < MaxHeld
  /\ heldEvents' = HeldMore(t, arg)
  /\ tokens' = Append(tokens, HeldToken(t))
  /\ heldLog' = Append(heldLog, arg)
  /\ currentEventToken' = HeldToken(t)
  /\ ThrowTooManyArguments
  /\ UNCHANGED <<emitterVars, currentEventKey, heldEventsRemovalStack,
                 heldEventsEmitDepth, subs, firedOnce, twin>>

\* Every method of EventEmitterWithHolding, called from the top level or from
\* a running listener with at most five data arguments, and the steps of the
\* loops in progress.
NextV ==
  \/ \E t \in Types2 : NumRegs < MaxSubs /\ AddListener(t, "f", Undef)
  \/ \E t \in Types2 : NumRegs < MaxSubs /\ Once(t, "f", Undef)
  \/ \E t \in Types2 : NumRegs < MaxSubs /\ AddRetroactiveListener(t, "f", Undef)
  \/ \E t \in Types2 \cup {Undef} : RemoveAllListeners(t)
  \/ HoldingRemoveCurrentListener
  \/ \E r \in 1..MaxRegs : SubscriptionRemove(r)
  \/ \E t \in Types2 : Emit(t, "a")
  \/ \E t \in Types2 : NumHeld < MaxHolds /\ EmitAndHold(t, "a")
  \/ HoldingReleaseCurrentEvent
  \/ \E t \in Types2 : ReleaseEventType(t)
  \/ EmitStep
  \/ EmitEnd
  \/ ReplayStep
  \/ ReplayEnd
  \/ ListenerReturn

SpecV == Init /\ [][NextV]_vars

\* The same calls, and emit and emitAndHold called with a sixth data argument
\* that is defined.
Next ==
  \/ NextV
  \/ \E t \in Types2 : EmitSixth(t, "a")
  \/ \E t \in Types2 : NumHeld < MaxHolds /\ EmitAndHoldSixth(t, "a")

Spec == Init /\ [][Next]_vars

\* Chains of nested addRetroactiveListener calls, as in the test "can handle
\* nested subscriptions to held events": the top level holds events, registers
\* retroactive listeners and emits; a listener that is replayed a record
\* registers a retroactive listener in turn, releases the current event or
\* removes itself; a listener invoked by emit only returns.
TopLevel == stack = <<>>

TopLevelOrReplayed == IF stack = <<>> THEN TRUE ELSE ReplayedListenerRuns

NextChain ==
  \/ \E t \in Types : TopLevel /\ EmitAndHold(t, "a")
  \/ \E t \in Types : TopLevelOrReplayed /\ AddRetroactiveListener(t, "f", Undef)
  \/ ReplayedListenerRuns /\ HoldingReleaseCurrentEvent
  \/ ReplayedListenerRuns /\ HoldingRemoveCurrentListener
  \/ \E t \in Types : TopLevel /\ Emit(t, "a")
  \/ EmitStep
  \/ EmitEnd
  \/ ReplayStep
  \/ ReplayEnd
  \/ ListenerReturn

SpecChain == Init /\ [][NextChain]_vars

\* Holding and replaying with the listeners, contexts and arguments told
\* apart: the top level registers listeners, holds events and releases event
\* types; a listener releases the current event or returns.
ListenerRuns == IF stack = <<>> THEN FALSE ELSE Top.running

NextD ==
  \/ \E t \in Types2, fn \in Fns, ctx \in Ctxs :
        TopLevel /\ AddListener(t, fn, ctx)
  \/ \E t \in Types2, fn \in Fns, ctx \in Ctxs :
        TopLevel /\ AddRetroactiveListener(t, fn, ctx)
  \/ \E t \in Types2, x \in Args :
        TopLevel /\ NumHeld < MaxHolds /\ EmitAndHold(t, x)
  \/ \E t \in Types2 : TopLevel /\ ReleaseEventType(t)
  \/ ListenerRuns /\ HoldingReleaseCurrentEvent
  \/ EmitStep
  \/ EmitEnd
  \/ ReplayStep
  \/ ReplayEnd
  \/ ListenerReturn

SpecD == Init /\ [][NextD]_vars

\* The emitter with the listeners, contexts and arguments told apart:
\* listeners are registered and events emitted by the top level and by the
\* listeners; subscriptions are removed by the top level, between emits.
NextO ==
  \/ \E t \in Types2, fn \in Fns, ctx \in Ctxs : AddListener(t, fn, ctx)
  \/ \E r \in 1..MaxRegs : TopLevel /\ SubscriptionRemove(r)
  \/ \E t \in Types2, x \in Args : Emit(t, x)
  \/ EmitStep
  \/ EmitEnd
  \/ ListenerReturn

SpecO == Init /\ [][NextO]_vars

\* The holder with the listeners, contexts and arguments told apart: the top
\* level holds events, releases them by their tokens and replays a type to a
\* listener, which returns.
NextT ==
  \/ \E t \in Types2, x \in Args : TopLevel /\ HoldEvent(t, x)
  \/ \E h \in 1..MaxHeld : TopLevel /\ ReleaseEvent(h)
  \/ \E t \in Types2, fn \in Fns, ctx \in Ctxs : TopLevel /\ EmitToListener(t, fn, ctx)
  \/ ReplayStep
  \/ ReplayEnd
  \/ ListenerReturn

SpecT == Init /\ [][NextT]_vars

\* An emitter and a holder side by side: the top level registers listeners,
\* holds events, clears types, emits and replays; the top level and the
\* listeners remove subscriptions and release tokens.
NextR ==
  \/ \E t \in Types2, ctx \in Ctxs : TopLevel /\ NumRegs < MaxSubs /\ AddListener(t, "f", ctx)
  \/ \E t \in Types2 : TopLevel /\ RemoveAllListeners(t)
  \/ \E r \in 1..MaxSubs : SubscriptionRemove(r)
  \/ \E t \in Types2 : TopLevel /\ Emit(t, "a")
  \/ \E t \in Types2 : TopLevel /\ NumHeld < MaxHolds /\ HoldEvent(t, "a")
  \/ \E t \in Types2 : TopLevel /\ ReleaseEventType(t)
  \/ \E h \in 1..MaxHolds : ReleaseEvent(h)
  \/ \E t \in Types2 : TopLevel /\ EmitToListener(t, "f", Undef)
  \/ EmitStep
  \/ EmitEnd
  \/ ReplayStep
  \/ ReplayEnd
  \/ ListenerReturn

SpecR == Init /\ [][NextR]_vars

\* Plain and held emissions told apart by their argument, as in the test
\* "does not receive events that were previously emitted in a normal way":
\* emit carries "b", emitAndHold carries "a"; the top level and the listeners
\* register, emit, hold and release the current event.
NextP ==
  \/ \E t \in Types2 : NumRegs < MaxSubs /\ AddListener(t, "f", Undef)
  \/ \E t \in Types2 : NumRegs < MaxSubs /\ AddRetroactiveListener(t, "f", Undef)
  \/ \E t \in Types2 : Emit(t, "b")
  \/ \E t \in Types2 : NumHeld < MaxHolds /\ EmitAndHold(t, "a")
  \/ HoldingReleaseCurrentEvent
  \/ EmitStep
  \/ EmitEnd
  \/ ReplayStep
  \/ ReplayEnd
  \/ ListenerReturn

SpecP == Init /\ [][NextP]_vars

\* Retroactive listeners next to plain ones, as in the tests "should handle
\* normal events in addition to held events" and "allows a listener to still
\* receive events when it is a retroactive listener and it releases a held
\* event": addRetroactiveListener registers "f", addListener registers "g".
NextL ==
  \/ \E t \in Types2 : NumRegs < MaxSubs /\ AddListener(t, "g", Undef)
  \/ \E t \in Types2 : NumRegs < MaxSubs /\ AddRetroactiveListener(t, "f", Undef)
  \/ \E t \in Types2 : Emit(t, "b")
  \/ \E t \in Types2 : NumHeld < MaxHolds /\ EmitAndHold(t, "a")
  \/ HoldingReleaseCurrentEvent
  \/ EmitStep
  \/ EmitEnd
  \/ ReplayStep
  \/ ReplayEnd
  \/ ListenerReturn

SpecL == Init /\ [][NextL]_vars

\* An EventEmitterWithHolding of which no holding operation is used, next to
\* a bare EventEmitter: two instances are given the same sequence of calls,
\* made by the top level and by the listeners (the same listeners on both),
\* each call first on the wrapper and then on the bare emitter.  The
\* variables of the emitter hold the instance whose turn it is and
\* twin.emitter holds the other one.
\*
\* The calls of a sequence: the methods, with the inputs of NextE, and the
\* steps of the passes of emit.  `level` is the caller that catches the
\* error of removeCurrentListener (0: nobody).
Calls ==
  {[op |-> o, eventType |-> t, rid |-> 0, level |-> 0] :
       o \in {"addListener", "once", "emit"}, t \in Types2}
  \cup {[op |-> "removeAllListeners", eventType |-> t, rid |-> 0, level |-> 0] :
       t \in Types2 \cup {Undef}}
  \cup {[op |-> "remove", eventType |-> Undef, rid |-> r, level |-> 0] :
       r \in 1..MaxSubs}
  \cup {[op |-> "removeCurrentListener", eventType |-> Undef, rid |-> 0, level |-> k] :
       k \in 0..MaxDepth}
  \cup {[op |-> o, eventType |-> Undef, rid |-> 0, level |-> 0] :
       o \in {"emitStep", "emitEnd", "return"}}

\* History: the value of `last` of an instance that has its turn and has not
\* made its call yet.
Turn == Ev("turn", Undef, 0, 0, "none", Undef)

\* An error is caught at the level the call names.
CaughtAt(level) ==
  IF last'.op = "throw" THEN Len(stack') = level ELSE level = 0

\* The instance `who` has its turn to make the call c, a call of method op.
Due(who, c, op) ==
  /\ twin.turn = who
  /\ twin.call = c
  /\ c.op = op
  /\ last = Turn

\* The call c made on the EventEmitterWithHolding.
HoldingCall(c) ==
  \/ Due("holding", c, "addListener") /\ NumRegs < MaxSubs /\ HoldingAddListener(c.eventType, "f", Undef)
  \/ Due("holding", c, "once") /\ NumRegs < MaxSubs /\ HoldingOnce(c.eventType, "f", Undef)
  \/ Due("holding", c, "removeAllListeners") /\ HoldingRemoveAllListeners(c.eventType)
  \/ Due("holding", c, "removeCurrentListener") /\ HoldingRemoveCurrentListener /\ CaughtAt(c.level)
  \/ Due("holding", c, "remove") /\ SubscriptionRemove(c.rid)
  \/ Due("holding", c, "emit") /\ HoldingEmit(c.eventType, "a")
  \/ Due("holding", c, "emitStep") /\ EmitStep
  \/ Due("holding", c, "emitEnd") /\ EmitEnd
  \/ Due("holding", c, "return") /\ ListenerReturn

\* The call c made on the bare EventEmitter.
BareCall(c) ==
  \/ Due("bare", c, "addListener") /\ NumRegs < MaxSubs /\ AddListener(c.eventType, "f", Undef)
  \/ Due("bare", c, "once") /\ NumRegs < MaxSubs /\ Once(c.eventType, "f", Undef)
  \/ Due("bare", c, "removeAllListeners") /\ RemoveAllListeners(c.eventType)
  \/ Due("bare", c, "removeCurrentListener") /\ RemoveCurrentListener /\ CaughtAt(c.level)
  \/ Due("bare", c, "remove") /\ SubscriptionRemove(c.rid)
  \/ Due("bare", c, "emit") /\ Emit(c.eventType, "a")
  \/ Due("bare", c, "emitStep") /\ EmitStep
  \/ Due("bare", c, "emitEnd") /\ EmitEnd
  \/ Due("bare", c, "return") /\ ListenerReturn

\* The variables of the emitter take the state e.
Load(e) ==
  /\ listenersByType' = e.listenersByType
  /\ listenerContextsByType' = e.listenerContextsByType
  /\ currentSubscription' = e.currentSubscription
  /\ stack' = e.stack
  /\ subs' = e.subs
  /\ firedOnce' = e.firedOnce

\* The next call of the sequence is chosen; the wrapper has its turn.
Begin(c) ==
  /\ twin.turn = "none"
  /\ twin' = [twin EXCEPT !.turn = "holding", !.call = c]
  /\ last' = Turn
  /\ UNCHANGED <<emitterVars, holderVars, holdingVars, stack, subs, tokens, heldLog, firedOnce>>

\* The wrapper has made the call: the bare emitter has its turn.
Switch ==
  /\ twin.turn = "holding"
  /\ last # Turn
  /\ twin' = [twin EXCEPT !.turn = "bare", !.emitter = EmitterState]
  /\ Load(twin.emitter)
  /\ last' = Turn
  /\ UNCHANGED <<holderVars, holdingVars, tokens, heldLog>>

\* The bare emitter has made the call too: listeners() is called on it for
\* every type, and the wrapper is back in the variables of the emitter.
End ==
  /\ twin.turn = "bare"
  /\ last # Turn
  /\ twin' = [turn |-> "none", call |-> NoCall, emitter |-> EmitterState,
              heard |-> [t \in Types |-> Listeners(t)]]
  /\ Load(twin.emitter)
  /\ last' = twin.emitter.last
  /\ UNCHANGED <<holderVars, holdingVars, tokens, heldLog>>

NextW ==
  \/ \E c \in Calls : Begin(c)
  \/ \E c \in Calls : HoldingCall(c)
  \/ Switch
  \/ \E c \in Calls : BareCall(c)
  \/ End

SpecW == Init /\ [][NextW]_vars

\* Registrations made during a replay: the top level holds events, registers
\* retroactive listeners and emits; a listener that is replayed a record
\* registers a retroactive listener "f" or a plain listener "g", for the
\* type replayed or another, or releases the current event; a listener
\* invoked by emit only returns.
NextN ==
  \/ \E t \in Types2 : TopLevel /\ EmitAndHold(t, "a")
  \/ \E t \in Types2 : TopLevelOrReplayed /\ AddRetroactiveListener(t, "f", Undef)
  \/ \E t \in Types2 : ReplayedListenerRuns /\ AddListener(t, "g", Undef)
  \/ ReplayedListenerRuns /\ HoldingReleaseCurrentEvent
  \/ \E t \in Types2 : TopLevel /\ Emit(t, "b")
  \/ EmitStep
  \/ EmitEnd
  \/ ReplayStep
  \/ ReplayEnd
  \/ ListenerReturn

SpecN == Init /\ [][NextN]_vars

\* Retroactive registrations among emitAndHold calls: the top level and the
\* listeners, called by emit or replayed a record, register listeners, with
\* and without replay, emit and hold events and release the current one.
NextG ==
  \/ \E t \in Types2 : AddListener(t, "g", Undef)
  \/ \E t \in Types2 : AddRetroactiveListener(t, "f", Undef)
  \/ \E t \in Types2 : EmitAndHold(t, "a")
  \/ HoldingReleaseCurrentEvent
  \/ EmitStep
  \/ EmitEnd
  \/ ReplayStep
  \/ ReplayEnd
  \/ ListenerReturn

SpecG == Init /\ [][NextG]_vars

\* Replays whose listeners call emit with a sixth argument: listeners are
\* registered with addListener and addRetroactiveListener, events are emitted
\* and held, and a listener removes itself, releases the current event or
\* calls emit with six data arguments.
NextA ==
  \/ \E t \in Types2 : NumRegs < MaxSubs /\ AddListener(t, "f", Undef)
  \/ \E t \in Types2 : NumRegs < MaxSubs /\ AddRetroactiveListener(t, "f", Undef)
  \/ HoldingRemoveCurrentListener
  \/ \E t \in Types2 : Emit(t, "a")
  \/ \E t \in Types2 : NumHeld < MaxHolds /\ EmitAndHold(t, "a")
  \/ \E t \in Types2 : EmitSixth(t, "a")
  \/ HoldingReleaseCurrentEvent
  \/ EmitStep
  \/ EmitEnd
  \/ ReplayStep
  \/ ReplayEnd
  \/ ListenerReturn

SpecA == Init /\ [][NextA]_vars

\* The operations of Spec when no exception leaves a listener: an error
\* raised by a call, the one of a sixth argument included, is caught by its
\* caller.
NextK ==
  \/ \E t \in Types2 : NumRegs < MaxSubs /\ AddListener(t, "f", Undef)
  \/ \E t \in Types2 : NumRegs < MaxSubs /\ Once(t, "f", Undef)
  \/ \E t \in Types2 : NumRegs < MaxSubs /\ AddRetroactiveListener(t, "f", Undef)
  \/ \E t \in Types2 \cup {Undef} : RemoveAllListeners(t)
  \/ HoldingRemoveCurrentListener /\ Len(stack') = Len(stack)
  \/ \E r \in 1..MaxRegs : SubscriptionRemove(r)
  \/ \E t \in Types2 : Emit(t, "a")
  \/ \E t \in Types2 : NumHeld < MaxHolds /\ EmitAndHold(t, "a")
  \/ \E t \in Types2 : EmitSixth(t, "a") /\ Len(stack') = Len(stack)
  \/ \E t \in Types2 : /\ NumHeld < MaxHolds
                        /\ EmitAndHoldSixth(t, "a")
                        /\ Len(stack') = Len(stack)
  \/ HoldingReleaseCurrentEvent /\ Len(stack') = Len(stack)
  \/ \E t \in Types2 : ReleaseEventType(t)
  \/ EmitStep
  \/ EmitEnd
  \/ ReplayStep
  \/ ReplayEnd
  \/ ListenerReturn

SpecK == Init /\ [][NextK]_vars

\* Passes whose listeners start no pass: the top level and the listeners
\* register listeners and hold events; only the top level emits and replays.
\* The loops go on, and a listener that is running returns.
NextF ==
  \/ \E t \in Types2 : AddListener(t, "f", Undef)
  \/ \E t \in Types2 : HoldEvent(t, "a")
  \/ \E t \in Types2 : TopLevel /\ Emit(t, "a")
  \/ \E t \in Types2 : TopLevel /\ EmitToListener(t, "f", Undef)
  \/ EmitStep
  \/ EmitEnd
  \/ ReplayStep
  \/ ReplayEnd
  \/ ListenerReturn

SpecF ==
  /\ Init /\ [][NextF]_vars
  /\ WF_vars(EmitStep) /\ WF_vars(EmitEnd)
  /\ WF_vars(ReplayStep) /\ WF_vars(ReplayEnd)
  /\ WF_vars(ListenerReturn)

\* Calls with too many arguments, among registrations, emitAndHold calls
\* and releases of the current event, by the top level and by listeners.
NextX ==
  \/ \E t \in Types2 : AddListener(t, "f", Undef)
  \/ \E t \in Types2 : EmitSixth(t, "a")
  \/ \E t \in Types2 : EmitAndHoldSixth(t, "a")
  \/ \E t \in Types2 : EmitAndHold(t, "b")
  \/ HoldingReleaseCurrentEvent
  \/ EmitStep
  \/ EmitEnd
  \/ ListenerReturn

SpecX == Init /\ [][NextX]_vars

\* Releases during a replay: events are held, tokens are used and replays
\* are started by the top level and by the listeners that are replayed a
\* record, which also release the current event; no type is cleared.
NextS ==
  \/ \E t \in Types2 : HoldEvent(t, "a")
  \/ \E t \in Types2 : EmitToListener(t, "f", Undef)
  \/ \E h \in 1..MaxHeld : ReleaseEvent(h)
  \/ ReleaseCurrentEvent
  \/ ReplayStep
  \/ ReplayEnd
  \/ ListenerReturn

SpecS == Init /\ [][NextS]_vars

\* The registry under every kind of removal, with the listeners and the
\* contexts told apart:
\* the top level registers and emits; the top level and the listeners remove
\* subscriptions, the current listener and all the listeners of a type.
NextQ ==
  \/ \E t \in Types2, fn \in Fns, ctx \in Ctxs : TopLevel /\ AddListener(t, fn, ctx)
  \/ \E r \in 1..MaxRegs : SubscriptionRemove(r)
  \/ \E t \in Types2 \cup {Undef} : RemoveAllListeners(t)
  \/ RemoveCurrentListener
  \/ \E t \in Types2 : TopLevel /\ Emit(t, "a")
  \/ EmitStep
  \/ EmitEnd
  \/ ListenerReturn

SpecQ == Init /\ [][NextQ]_vars
\* ==================================================================== claims
\* C2: in EventEmitter, removeCurrentListener() called by a listener that is
\* running in an emit pass, and whose registration is still active, removes
\* exactly that listener's registration and raises no error, at every point
\* of the pass (also after a nested emit has returned).
C2_RemoveCurrentRemovesCaller ==
  [][(RemoveCurrentListener /\ LiveListenerRuns /\ Top.rid \in ActiveRids)
       => /\ ActiveRids' = ActiveRids \ {Top.rid}
          /\ stack' = stack]_vars

\* C3: a listener registered with once() is invoked at most once over the
\* whole run: no emit pass invokes a once() registration that was already
\* invoked.
C3_OnceAtMostOnce ==
  [][\A r \in 1..NumRegs :
       (EmitStep /\ LiveListenerRuns' /\ Top'.rid = r /\ r \in firedOnce')
         => r \notin firedOnce]_vars

\* C4: a subscription's remove() removes exactly the registration it was
\* returned for, if that is still active, and changes nothing otherwise; it
\* never removes a registration made by another addListener call.
C4_SubscriptionRemovesOwn ==
  [][\A r \in 1..NumRegs :
       SubscriptionRemove(r) => ActiveRids' = ActiveRids \ {r}]_vars

\* C5: releaseEvent(token) tombstones exactly the record the token was
\* returned for, if it is still held, and changes nothing otherwise; it never
\* releases a record made by another holdEvent call.
C5_TokenReleasesOwn ==
  [][\A h \in 1..NumHeld :
       ReleaseEvent(h) => HeldHids' = HeldHids \ {h}]_vars

\* C1: on EventEmitterWithHolding, releaseCurrentEvent() called by a listener
\* that is being replayed the held record K releases exactly K and no other
\* record, in every calling context of the replay.
C1_ReplayReleasesCurrent ==
  [][(HoldingReleaseCurrentEvent /\ ReplayedListenerRuns /\ Top.hid \in HeldHids)
       => HeldHids' = HeldHids \ {Top.hid}]_vars

\* C6: on EventEmitterWithHolding, removeCurrentListener() called by a
\* listener that an emit pass is running, and whose registration is still
\* active, removes that listener's registration and no other: nothing else is
\* removed or marked for removal, also when the pass was started from inside
\* a replay.
C6_HoldingRemoveCurrentRemovesCaller ==
  [][(HoldingRemoveCurrentListener /\ LiveListenerRuns /\ Top.rid \in ActiveRids)
       => /\ ActiveRids' = ActiveRids \ {Top.rid}
          /\ heldEventsRemovalStack' = heldEventsRemovalStack
          /\ stack' = stack]_vars

\* C6 fails in this way: an addRetroactiveListener call has returned and
\* removed its registration although its listener never called
\* removeCurrentListener during the replay; the listener registered before,
\* which did call it while an emit issued from the replay was invoking it, is
\* still registered.
C6_Witness ==
  /\ last.op = "addRetroactiveListenerEnd"
  /\ last.removed /\ last.asked = 0
  /\ last.rid = 2 /\ ActiveRids = {1}

\* C7: while emitAndHold is in progress, releaseCurrentEvent() called by a
\* listener of that pass releases exactly the record held by that emitAndHold
\* call, for every listener of the pass (also after a nested emitAndHold has
\* returned).
C7_LiveReleaseReleasesHeld ==
  [][(HoldingReleaseCurrentEvent /\ LiveListenerRuns /\ Top.hold
        /\ Top.hid \in HeldHids)
       => HeldHids' = HeldHids \ {Top.hid}]_vars

\* C8: a retroactive listener that calls removeCurrentListener() while it is
\* replayed a held record is not removed at once and its replay goes on: when
\* the replay ends it was delivered every record of the type that was held at
\* the call and is still held, and the registration made by that
\* addRetroactiveListener call is then removed.  A registration that is removed
\* stays removed, and an emit pass invokes only listeners that were registered
\* when it started, so no later emit or emitAndHold invokes it.
C8_DeferredRemoval ==
  /\ [][(HoldingRemoveCurrentListener /\ ReplayedListenerRuns /\ Top.retro)
          => /\ listenersByType' = listenersByType
             /\ Len(stack') = Len(stack)
             /\ Top'.running /\ Top'.idx = Top.idx /\ Top'.asked > 0]_vars
  /\ [][(ReplayEnd /\ Top.retro /\ Top.asked > 0)
          => /\ Top.rid \notin ActiveRids'
             /\ \A h \in HeldHids :
                  (h <= Top.held0 /\ tokens[h].eventType = Top.eventType)
                    => h \in Range(Top.seen)]_vars
  /\ [][\A r \in 1..NumRegs : r \notin ActiveRids => r \notin ActiveRids']_vars
  /\ [][(EmitStep /\ LiveListenerRuns') => Top'.rid \in Range(Top.live0)]_vars
  /\ [][\A t \in Types : ((Emit(t, "a") \/ EmitAndHold(t, "a")) /\ Len(stack') > Len(stack))
          => Range(Top'.live0) \subseteq ActiveRids]_vars

\* C8 happens: an addRetroactiveListener call whose listener asked for its
\* removal at the first of two records has returned; it was replayed both and
\* its registration is gone.
C8_Witness ==
  /\ last.op = "addRetroactiveListenerEnd"
  /\ last.asked = 1 /\ Len(last.seen) = 2
  /\ last.rid \notin ActiveRids

\* C9: in a chain of nested addRetroactiveListener calls, releaseCurrentEvent()
\* at a level releases the record being replayed at that level and
\* removeCurrentListener() at a level marks that level alone; a record is
\* released only by the level that is replayed it and a registration is removed
\* only when the call that made it returns after its listener asked for it, so
\* a level that asked for neither keeps both.  Every replay delivers each
\* record held at its start and still held exactly once, and a later emit
\* invokes no removed listener.
C9_NestedChain ==
  /\ [][(HoldingReleaseCurrentEvent /\ ReplayedListenerRuns)
          => HeldHids' = HeldHids \ {Top.hid}]_vars
  /\ [][(HoldingRemoveCurrentListener /\ ReplayedListenerRuns)
          => /\ heldEventsRemovalStack' =
                  [heldEventsRemovalStack EXCEPT ![Len(stack)] = TRUE]
             /\ ActiveRids' = ActiveRids]_vars
  /\ [][HeldHids \ HeldHids' # {}
          => /\ ReplayedListenerRuns
             /\ HeldHids \ HeldHids' = {Top.hid}]_vars
  /\ [][ReplayEnd
          => /\ ActiveRids' = IF Top.asked > 0 THEN ActiveRids \ {Top.rid}
                              ELSE ActiveRids
             /\ Cardinality(Range(Top.seen)) = Len(Top.seen)
             /\ \A h \in Range(Top.seen) : tokens[h].eventType = Top.eventType
             /\ \A h \in HeldHids :
                  (h <= Top.held0 /\ tokens[h].eventType = Top.eventType)
                    => h \in Range(Top.seen)]_vars
  /\ [][ActiveRids \ ActiveRids' # {} => ReplayEnd]_vars
  /\ [][(EmitStep /\ LiveListenerRuns') => Top'.rid \in ActiveRids]_vars

\* C9 happens: three levels, each for another type with one held record.  The
\* innermost call has returned, its record released and its registration
\* removed; the listener of the second level, still running, has then released
\* its record and asked for its removal; the first level is suspended below.
C9_Witness ==
  /\ Len(stack) = 2
  /\ stack[1].rid = 1 /\ stack[2].rid = 2 /\ NumRegs = 3
  /\ Cardinality({subs[r].eventType : r \in 1..3}) = 3
  /\ NumHeld = 3
  /\ Cardinality({tokens[h].eventType : h \in 1..3}) = 3
  /\ stack[2].running /\ stack[2].asked > 0
  /\ HeldHids = {stack[1].hid}
  /\ ActiveRids = {1, 2}

\* C10: a replay started by addRetroactiveListener(T, L) invokes L, with the
\* context given, with the arguments of the emitAndHold call that held the
\* record, once for every record of T held before and not released; and
\* emitAndHold(T, x) invokes with x every listener registered for T when it
\* was called.
C10_HoldReplay ==
  /\ [][(ReplayStep /\ ReplayedListenerRuns')
          => /\ last'.arg = heldLog[Top'.hid]
             /\ last'.ctx = Top.ctx /\ last'.rid = Top.rid
             /\ tokens[Top'.hid].eventType = Top.eventType
             /\ Top'.hid \in HeldHids]_vars
  /\ [][(ReplayEnd /\ Top.retro)
          => /\ Cardinality(Range(Top.seen)) = Len(Top.seen)
             /\ \A h \in HeldHids :
                  (h <= Top.held0 /\ tokens[h].eventType = Top.eventType)
                    => h \in Range(Top.seen)]_vars
  /\ [][(EmitStep /\ LiveListenerRuns' /\ Top.hold)
          => /\ last'.arg = heldLog[Top.hid]
             /\ tokens[Top.hid].eventType = Top.eventType]_vars
  /\ [][(EmitEnd /\ Top.hold) => Top.seen = Top.live0]_vars

\* C10 happens: the third registration of a type, made by
\* addRetroactiveListener, has returned from its replay; its listener was
\* invoked once, with the record that emitAndHold held with "b", and the
\* record is still held for the next registration.
C10_Witness ==
  /\ last.op = "addRetroactiveListenerEnd"
  /\ last.rid = 3 /\ 2 \in ActiveRids
  /\ subs[1].eventType = last.eventType /\ subs[2].eventType = last.eventType
  /\ Len(last.seen) = 1
  /\ heldLog[last.seen[1]] = "b"
  /\ last.seen[1] \in HeldHids

\* The active registrations of a type.
ActiveRidsOf(t) == {r \in ActiveRids : subs[r].eventType = t}

\* C11: an emit pass invokes only registrations that were active when the
\* emit call started, and those are all the active registrations of the type
\* at that moment; a registration a listener makes during a pass is therefore
\* in no pass in progress and is in the passes of the emit calls made
\* afterwards; a pass that ends has invoked every registration it started
\* with, but for those removed meanwhile.
C11_AddedDuringEmit ==
  /\ [][(EmitStep /\ LiveListenerRuns') => Top'.rid \in Range(Top.live0)]_vars
  /\ [][\A t \in Types :
          (Emit(t, "a") /\ Len(stack') > Len(stack))
            => Range(Top'.live0) = ActiveRidsOf(t)]_vars
  /\ [][\A t \in Types :
          (AddListener(t, "f", Undef) /\ LiveListenerRuns)
            => /\ NumRegs' \in ActiveRidsOf(t)'
               /\ \A i \in 1..Len(stack) : NumRegs' \notin Range(stack[i].live0)]_vars
  /\ [][EmitEnd
          => \A r \in Range(Top.live0) :
               IF r \in Range(Top.seen) THEN TRUE ELSE r \notin ActiveRids]_vars

\* C11 happens: the listener of registration 1 runs in an emit pass that
\* started without registration 2; registration 2, made during that pass for
\* the same type, is being invoked by an emit call made after it was added.
C11_Witness ==
  /\ Len(stack) = 2
  /\ stack[1].eventType = stack[2].eventType
  /\ stack[1].running /\ stack[1].rid = 1
  /\ 2 \notin Range(stack[1].live0)
  /\ stack[2].running /\ stack[2].rid = 2

\* The positions in `keys` an emit pass has still to visit.
PendingPositions(fr) ==
  (IF fr.running THEN fr.ii + 1 ELSE fr.ii)..Len(FrameKeys(fr))

\* C12: when a listener of a pass removes an active subscription, every emit
\* pass in progress loses exactly that listener from what it has still to
\* visit: its slot is empty and the other slots to visit are as before, so
\* the removal of a listener already invoked changes nothing of the rest of
\* the pass.  An empty slot stays empty for the pass and the pass skips it.
C12_RemovedDuringEmit ==
  /\ [][\A r \in 1..NumRegs :
          (SubscriptionRemove(r) /\ LiveListenerRuns /\ r \in ActiveRids)
            => \A i \in 1..Len(stack) : \A j \in PendingPositions(stack[i]) :
                 LET k == FrameKeys(stack[i])[j]
                     before == At(FrameListeners(stack[i]), k, Hole)
                     after == At(FrameListeners(stack[i])', k, Hole)
                 IN after = IF before.rid = r THEN Hole ELSE before]_vars
  /\ [][\A i \in 1..Len(stack) :
          (i <= Len(stack') /\ stack[i].kind = "emit")
            => \A j \in PendingPositions(stack[i]) :
                 LET k == FrameKeys(stack[i])[j]
                 IN At(FrameListeners(stack[i]), k, Hole) = Hole
                      => At(FrameListeners(stack[i])', k, Hole) = Hole]_vars
  /\ [][(EmitStep /\ At(FrameListeners(Top), FrameKeys(Top)[Top.ii], Hole) = Hole)
          => /\ ~Top'.running
             /\ Top'.ii = Top.ii + 1
             /\ Top'.seen = Top.seen]_vars

\* C12 happens: a pass that started with registrations 1 and 2 has invoked 1
\* and skipped 2, whose subscription the listener of 1 removed during the
\* pass; registration 1 is still active.
C12_Witness ==
  /\ Len(stack) = 1 /\ Top.kind = "emit" /\ ~Top.detached
  /\ Top.live0 = <<1, 2>> /\ Top.seen = <<1>>
  /\ Top.ii > Len(FrameKeys(Top))
  /\ last.op = "skip"
  /\ ActiveRids = {1}

\* C13: a listener that is invoked is registered at that moment: after
\* removeAllListeners no listener registered before the call is invoked any
\* more, also not by an emit pass that was in progress at the call.
C13_ClearedNotInvoked ==
  [][(EmitStep /\ LiveListenerRuns') => Top'.rid \in ActiveRids]_vars

\* C13 fails in this way: the second listener of a pass is running although
\* an earlier listener of the pass called removeAllListeners and no listener
\* is registered any more.
C13_Witness ==
  /\ Len(stack) = 1 /\ Top.kind = "emit" /\ Top.running
  /\ Top.detached
  /\ Top.seen = <<1, 2>>
  /\ last.op = "invoke" /\ last.rid = 2
  /\ ActiveRids = {}

\* A sequence of registrations in registration order.
Ascending(seq) == \A i, j \in 1..Len(seq) : i < j => seq[i] < seq[j]

\* The listener an emit pass visits next.
NextListener(fr) == At(FrameListeners(fr), FrameKeys(fr)[fr.ii], Hole)

\* C14: as long as no listener was removed, an emit call takes all the
\* registrations made for the type, in registration order; each step of its
\* pass invokes the next of them, the listener registered, with the emitted
\* argument, and the pass ends when each was invoked once.
C14_RegistrationOrder ==
  /\ [][\A t \in Types, x \in Args :
          (Emit(t, x) /\ Len(stack') > Len(stack) /\ ActiveRids = 1..NumRegs)
            => /\ Range(Top'.live0) = {r \in 1..NumRegs : subs[r].eventType = t}
               /\ Ascending(Top'.live0)
               /\ Top'.arg = x /\ Top'.seen = <<>>]_vars
  /\ [][(EmitStep /\ ActiveRids = 1..NumRegs)
          => /\ LiveListenerRuns'
             /\ Top'.seen = SubSeq(Top.live0, 1, Len(Top.seen) + 1)
             /\ Top'.rid = Top.live0[Len(Top.seen) + 1]
             /\ NextListener(Top).fn = subs[Top'.rid].fn
             /\ last' = Ev("invoke", Top.eventType, Top'.rid, 0, Top.arg,
                           subs[Top'.rid].ctx)]_vars
  /\ [][(EmitEnd /\ ActiveRids = 1..NumRegs) => Top.seen = Top.live0]_vars

\* C14 happens: an emit call with "b" has returned after invoking, in this
\* order, the three listeners registered for its type, which differ in
\* function and context.
C14_Witness ==
  /\ last.op = "emitEnd"
  /\ last.arg = "b"
  /\ last.live0 = <<1, 2, 3>> /\ last.seen = <<1, 2, 3>>
  /\ ActiveRids = {1, 2, 3}
  /\ subs[1].fn # subs[2].fn /\ subs[2].ctx # subs[3].ctx

\* C15: remove() on the subscription of registration i, between emits,
\* removes registration i and no other, for good; an emit call takes the
\* registrations of the type that are left, in registration order, and its
\* pass invokes each of them once, in that order, with the listener and the
\* context of its own registration.
C15_RemovalStability ==
  /\ [][\A r \in 1..NumRegs :
          (SubscriptionRemove(r) /\ TopLevel)
            => ActiveRids' = ActiveRids \ {r}]_vars
  /\ [][\A r \in 1..NumRegs : r \notin ActiveRids => r \notin ActiveRids']_vars
  /\ [][\A t \in Types, x \in Args :
          (Emit(t, x) /\ Len(stack') > Len(stack))
            => /\ Range(Top'.live0) = ActiveRidsOf(t)
               /\ Ascending(Top'.live0)]_vars
  /\ [][EmitStep
          => /\ LiveListenerRuns'
             /\ Top'.rid = Top.live0[Len(Top.seen) + 1]
             /\ Top'.rid \in ActiveRids
             /\ NextListener(Top).fn = subs[Top'.rid].fn
             /\ last'.ctx = subs[Top'.rid].ctx
             /\ last'.arg = Top.arg]_vars
  /\ [][EmitEnd => Top.seen = Top.live0]_vars

\* C15 happens: of three listeners registered for a type, the second with a
\* context, the second was removed by its subscription; an emit call made
\* afterwards has returned after invoking the first and the third, which was
\* registered with a context too.
C15_Witness ==
  /\ last.op = "emitEnd"
  /\ last.live0 = <<1, 3>> /\ last.seen = <<1, 3>>
  /\ ActiveRids = {1, 3}
  /\ subs[2].eventType = last.eventType
  /\ subs[1].ctx = Undef /\ subs[2].ctx # Undef /\ subs[3].ctx # Undef

\* The records held for a type, in the order of the array.
HeldSeqOf(t) ==
  LET held == SelectSeq(heldEvents[t], LAMBDA e : e # HeldHole)
  IN [i \in 1..Len(held) |-> held[i].hid]

\* C16: releaseEvent(token) takes the record of the token, and no other, out
\* of the records held, whose order is unchanged; a replay of a type delivers
\* the records held for it, each once, in the order they were held, with the
\* arguments they were held with.
C16_TokenPrecision ==
  /\ [][\A h \in 1..NumHeld :
          (ReleaseEvent(h) /\ TopLevel)
            => \A t \in Types :
                 HeldSeqOf(t)' = SelectSeq(HeldSeqOf(t), LAMBDA x : x # h)]_vars
  /\ [][(ReplayStep /\ ReplayedListenerRuns')
          => /\ Top'.hid = HeldSeqOf(Top.eventType)[Len(Top.seen) + 1]
             /\ last'.arg = heldLog[Top'.hid]
             /\ last'.ctx = Top.ctx]_vars
  /\ [][ReplayEnd => Top.seen = HeldSeqOf(Top.eventType)]_vars

\* C16 happens: three records were held for a type, the second was released
\* by its token, and a replay of the type has ended after delivering the
\* first and the third.
C16_Witness ==
  /\ last.op = "emitToListenerEnd"
  /\ last.seen = <<1, 3>>
  /\ NumHeld = 3 /\ \A h \in 1..3 : tokens[h].eventType = last.eventType
  /\ HeldHids = {1, 3}
  /\ heldLog[1] # heldLog[3]

\* C17: EventHolder.releaseCurrentEvent() called by a listener that is being
\* replayed a record releases that record and no other, whatever the
\* listener did before.
C17_ReleasesDelivered ==
  [][(ReleaseCurrentEvent /\ ReplayedListenerRuns)
       => HeldHids' = HeldHids \ {Top.hid}]_vars

\* C17 fails in this way: the record that is being delivered to the running
\* listener is no longer in the holder, and the record held after it by the
\* listener has been released in its place.
C17_Witness ==
  /\ Len(stack) = 1 /\ Top.kind = "replay" /\ Top.running
  /\ Top.hid = 1 /\ Top.detached
  /\ NumHeld = 2 /\ tokens[2] = tokens[1]
  /\ heldEvents[tokens[2].eventType] = <<HeldHole>>
  /\ currentEventKey = <<tokens[1]>>

\* The slot a token or a subscription names is empty or does not exist.
TokenSlotEmpty(h) ==
  At(heldEvents[tokens[h].eventType], tokens[h].index, HeldHole) = HeldHole

SubscriptionSlotEmpty(r) ==
  /\ At(listenersByType[subs[r].eventType], subs[r].key, Hole) = Hole
  /\ At(listenerContextsByType[subs[r].eventType], subs[r].key, Undef) = Undef

\* C18: releaseEvent(token) and remove() on a subscription leave the slot
\* they name empty and raise no error; called when the slot is empty, as it
\* is right after a first call, they change nothing at all, so the state and
\* what is delivered later are as after one call.
C18_IdempotentRelease ==
  /\ [][\A h \in 1..NumHeld :
          ReleaseEvent(h)
            => /\ TokenSlotEmpty(h)' /\ last'.op # "throw"
               /\ TokenSlotEmpty(h)
                    => UNCHANGED <<emitterVars, holderVars, holdingVars, stack,
                                   subs, tokens, heldLog, firedOnce, twin>>]_vars
  /\ [][\A r \in 1..NumRegs :
          SubscriptionRemove(r)
            => /\ SubscriptionSlotEmpty(r)' /\ last'.op # "throw"
               /\ SubscriptionSlotEmpty(r)
                    => UNCHANGED <<emitterVars, holderVars, holdingVars, stack,
                                   subs, tokens, heldLog, firedOnce, twin>>]_vars

\* C18 happens: a subscription and a token have each been used, so that
\* their slots are empty and a further call on either is a repeated one,
\* while another listener and another record of the same types are in place.
C18_Witness ==
  /\ NumRegs = 2 /\ subs[1].eventType = subs[2].eventType
  /\ SubscriptionSlotEmpty(1) /\ ActiveRids = {2}
  /\ NumHeld = 2 /\ tokens[1].eventType = tokens[2].eventType
  /\ TokenSlotEmpty(1) /\ HeldHids = {2}
  /\ last = Call

\* C19: removeCurrentListener() called by the top level, when no emit pass
\* and no replay is in progress, fails with the invariant error and leaves
\* the listener registry as it was.
C19_NoCurrentListenerThrows ==
  /\ [][TopLevel /\ RemoveCurrentListener
          => last'.op = "throw" /\ UNCHANGED <<listenersByType, listenerContextsByType>>]_vars
  /\ [][TopLevel /\ HoldingRemoveCurrentListener
          => last'.op = "throw" /\ UNCHANGED <<listenersByType, listenerContextsByType>>]_vars

\* C19 happens: a listener is registered, an emit call has invoked a
\* listener and is no longer in progress, and the top level has just had
\* the error.
C19_Witness ==
  /\ stack = <<>>
  /\ last.op = "throw" /\ last.eventType = Undef
  /\ firedOnce # {}
  /\ ActiveRids # {}

\* C20: EventHolder.releaseCurrentEvent() called by the top level, when no
\* emitToListener replay is in progress and the cursor stack is empty, fails
\* with the invariant error and leaves every held record in place.
C20_NoCurrentEventThrows ==
  /\ [](TopLevel => currentEventKey = <<>>)
  /\ [][TopLevel /\ ReleaseCurrentEvent
          => last'.op = "throw" /\ UNCHANGED heldEvents]_vars

\* C20 happens: records are held, none was released, and the top level has
\* just had the error.
C20_Witness ==
  /\ stack = <<>>
  /\ last.op = "throw" /\ last.eventType = Undef
  /\ NumHeld = MaxHolds /\ HeldHids = 1..MaxHolds

\* An emitAndHold call or a replay of held events is in progress.
HoldingInProgress ==
  \E i \in 1..Len(stack) :
    IF stack[i].kind = "emit" THEN stack[i].hold ELSE TRUE

\* C21: releaseCurrentEvent() of EventEmitterWithHolding, called when neither
\* an emitAndHold call nor a replay of held events is in progress, raises no
\* error and releases no held record.
C21_ReleaseOutsideHoldingNoOp ==
  [][~HoldingInProgress /\ HoldingReleaseCurrentEvent
       => last'.op # "throw" /\ UNCHANGED <<heldEvents, stack>>]_vars

\* C21 fails in this way: no call is in progress, the token of an emitAndHold
\* call that an error ended is still set, and the record it names has been
\* released.
C21_Witness ==
  /\ stack = <<>>
  /\ last = Call
  /\ currentEventToken # NoToken
  /\ NumHeld = 1 /\ tokens[1] = currentEventToken
  /\ HeldHids = {}

\* C22: a plain emit retains nothing, and every record a replay of
\* addRetroactiveListener delivers was held by an emitAndHold call and is
\* still held: with emit carrying "b" and emitAndHold carrying "a", no
\* replay delivers "b".
C22_PlainEmitNotRetained ==
  /\ [][\A t \in Types2 : Emit(t, "b") => UNCHANGED <<heldEvents, tokens, heldLog>>]_vars
  /\ [][(ReplayStep /\ ReplayedListenerRuns')
          => /\ last'.arg = "a"
             /\ last'.hid \in HeldHids
             /\ heldLog[last'.hid] = "a"]_vars
  /\ [](\A h \in 1..NumHeld : heldLog[h] = "a")

\* C22 happens: a plain emit of a type has invoked a listener with "b"; the
\* listener then called addRetroactiveListener for the type, and that call
\* is over having replayed the one record held, and nothing for the emit.
C22_Witness ==
  /\ Len(stack) = 1 /\ Top.kind = "emit" /\ ~Top.hold /\ Top.running
  /\ Top.arg = "b" /\ Top.seen # <<>>
  /\ last.op = "addRetroactiveListenerEnd" /\ last.eventType = Top.eventType
  /\ Len(last.seen) = 1 /\ NumHeld = 1

\* C23: addRetroactiveListener(T, L) replays to L every record of T held
\* before and not released, and leaves L registered, whether or not L
\* released held events during the replay; every later emit(T) and
\* emitAndHold(T) invokes all the listeners registered for T, L among them.
C23_RetroactiveStaysLive ==
  /\ [][(ReplayEnd /\ Top.retro)
          => /\ ~last'.removed
             /\ Top.rid \in ActiveRids'
             /\ \A h \in HeldHids :
                  (h <= Top.held0 /\ tokens[h].eventType = Top.eventType)
                    => h \in Range(Top.seen)]_vars
  /\ [][HoldingReleaseCurrentEvent
          => UNCHANGED <<listenersByType, listenerContextsByType, heldEventsRemovalStack>>]_vars
  /\ [][\A t \in Types2 :
          (Emit(t, "b") \/ EmitAndHold(t, "a"))
            => IF ActiveRidsOf(t) = {} THEN stack' = stack
               ELSE Range(Top'.live0) = ActiveRidsOf(t)]_vars
  /\ [][EmitEnd => Top.seen = Top.live0]_vars

\* C23 happens: the only registration was made by addRetroactiveListener,
\* its listener released the one held record during the replay, and a later
\* plain emit of the type has invoked it with "b".
C23_Witness ==
  /\ NumRegs = 1 /\ subs[1].fn = "f"
  /\ NumHeld = 1 /\ HeldHids = {}
  /\ tokens[1].eventType = subs[1].eventType
  /\ last.op = "emitEnd" /\ last.arg = "b" /\ last.seen = <<1>>
  /\ last.eventType = subs[1].eventType
  /\ stack = <<>>

\* The records of a type that are held.
HeldHidsOf(t) == {h \in HeldHids : tokens[h].eventType = t}

\* C24: releaseHeldEventType(T) leaves no record of T held, and leaves the
\* held records of the other types and the listener registrations as they
\* were; a replay of addRetroactiveListener(T, ...) made later starts from
\* the records held since and delivers records of T that are held, only.
C24_ReleaseTypeFrame ==
  /\ [][\A t \in Types2 :
          ReleaseEventType(t)
            => /\ HeldHidsOf(t)' = {}
               /\ \A u \in Types \ {t} : heldEvents'[u] = heldEvents[u]
               /\ UNCHANGED <<listenersByType, listenerContextsByType>>]_vars
  /\ [][\A t \in Types2, fn \in Fns, ctx \in Ctxs :
          AddRetroactiveListener(t, fn, ctx)
            => {heldEvents[t][k].hid : k \in 1..Top'.len} \ {0} = HeldHidsOf(t)]_vars
  /\ [][(ReplayStep /\ ReplayedListenerRuns')
          => last'.hid \in HeldHidsOf(Top.eventType)]_vars

\* C24 happens: two records of a type were held with a release of the type
\* between them, so that both took the first slot, and an
\* addRetroactiveListener call for the type is over having replayed the
\* second record alone.
C24_Witness ==
  /\ NumHeld = 2 /\ tokens[1] = tokens[2]
  /\ HeldHids = {2}
  /\ last.op = "addRetroactiveListenerEnd"
  /\ last.eventType = tokens[2].eventType
  /\ last.seen = <<2>>

\* C25: emitToListener(T, L, ctx) delivers to L, with ctx, held records of T
\* only, each with the arguments it was held with and none twice; when it
\* returns it has delivered every record of T that is held, in the order
\* the records were held.
C25_EmitToListener ==
  /\ [][\A t \in Types2, fn \in Fns, ctx \in Ctxs :
          EmitToListener(t, fn, ctx)
            => Top'.eventType = t /\ Top'.fn = fn /\ Top'.ctx = ctx /\ Top'.seen = <<>>]_vars
  /\ [][(ReplayStep /\ ReplayedListenerRuns')
          => /\ last'.hid \in HeldHidsOf(Top.eventType) \ Range(Top.seen)
             /\ last'.eventType = Top.eventType
             /\ last'.arg = heldLog[last'.hid]
             /\ last'.ctx = Top.ctx]_vars
  /\ [][(ReplayEnd /\ ~Top.retro)
          => Range(Top.seen) = HeldHidsOf(Top.eventType) /\ Ascending(Top.seen)]_vars

\* C25 happens: three records are held, the first and the third for one
\* type with different arguments and the second for another type, and a
\* replay of the first type has ended after delivering its two records.
C25_Witness ==
  /\ last.op = "emitToListenerEnd"
  /\ last.seen = <<1, 3>>
  /\ NumHeld = 3 /\ HeldHids = {1, 2, 3}
  /\ tokens[1].eventType = last.eventType /\ tokens[3].eventType = last.eventType
  /\ tokens[2].eventType # last.eventType
  /\ heldLog[1] # heldLog[3]

\* C26: listeners(T) is the sequence of the listeners of the registrations
\* of T that are in the registry, in registration order, and of no other
\* registration; addListener appends its listener to the result for its
\* type and changes no other result, a subscription that was removed and a
\* listener that removed itself are in no result, and removeAllListeners
\* leaves the empty sequence.
C26_Listeners ==
  /\ [](\A t \in Types :
          LET rids == ListenerRids(t)
          IN /\ Len(Listeners(t)) = Cardinality(ActiveRidsOf(t))
             /\ Range(rids) = ActiveRidsOf(t)
             /\ Ascending(rids)
             /\ \A i \in 1..Len(rids) :
                  Listeners(t)[i] = [fn |-> subs[rids[i]].fn, once |-> FALSE])
  /\ [][\A t \in Types2, fn \in Fns, ctx \in Ctxs :
          AddListener(t, fn, ctx)
            => /\ Listeners(t)' = Append(Listeners(t), [fn |-> fn, once |-> FALSE])
               /\ \A u \in Types \ {t} : Listeners(u)' = Listeners(u)]_vars
  /\ [][\A r \in 1..NumRegs :
          SubscriptionRemove(r) => r \notin ActiveRids']_vars
  /\ [][(RemoveCurrentListener /\ LiveListenerRuns /\ last'.op # "throw")
          => Top.rid \notin ActiveRids']_vars
  /\ [][\A t \in Types2 \cup {Undef} :
          RemoveAllListeners(t)
            => \A u \in ClearedTypes(t) : Listeners(u)' = <<>>]_vars

\* C26 happens: of three listeners registered, the first and the third for
\* one type and the second for another, the first was removed: listeners()
\* of its type is the third alone, a listener other than the first.
C26_Witness ==
  /\ NumRegs = 3 /\ ActiveRids = {2, 3}
  /\ subs[1].eventType = subs[3].eventType /\ subs[2].eventType # subs[1].eventType
  /\ subs[1].fn # subs[3].fn
  /\ Listeners(subs[1].eventType) = <<[fn |-> subs[3].fn, once |-> FALSE]>>
  /\ stack = <<>>

\* C27: every listener an emit pass invokes was registered for the type
\* emitted.  An emit call made when the type has no listener, and an
\* emitToListener call made when the type has no held record, raise no
\* error, invoke nothing until they return, and leave the registry and the
\* held records as they were.
C27_OtherTypesUntouched ==
  /\ [][(EmitStep /\ LiveListenerRuns')
          => /\ subs[Top'.rid].eventType = Top.eventType
             /\ last'.eventType = Top.eventType]_vars
  /\ [][\A t \in Types2 :
          (Emit(t, "a") /\ ListenerRids(t) = <<>>)
            => /\ last'.op # "throw"
               /\ IF stack' = stack THEN TRUE ELSE Top'.live0 = <<>>
               /\ UNCHANGED <<listenersByType, listenerContextsByType, heldEvents>>]_vars
  /\ [][((EmitStep \/ EmitEnd) /\ Top.live0 = <<>>)
          => /\ ~LiveListenerRuns'
             /\ last'.op \notin {"invoke", "throw"}
             /\ UNCHANGED <<listenersByType, listenerContextsByType, heldEvents>>]_vars
  /\ [][\A t \in Types2 :
          (EmitToListener(t, "f", Undef) /\ HeldSeqOf(t) = <<>>)
            => /\ last'.op # "throw"
               /\ Len(stack') = Len(stack) + 1
               /\ UNCHANGED <<listenersByType, listenerContextsByType, heldEvents>>]_vars
  /\ [][((ReplayStep \/ ReplayEnd) /\ ~Top.detached
            /\ Top.seen = <<>> /\ HeldSeqOf(Top.eventType) = <<>>)
          => /\ ~ReplayedListenerRuns'
             /\ last'.op \notin {"replay", "throw"}
             /\ UNCHANGED <<listenersByType, listenerContextsByType, heldEvents>>]_vars

\* C27 happens: a listener is registered and a record is held for one type
\* only; an emitToListener call for the other type has returned without a
\* delivery, and nothing was released or removed.
C27_Witness ==
  /\ last.op = "emitToListenerEnd" /\ last.seen = <<>>
  /\ NumRegs = 1 /\ ActiveRids = {1} /\ subs[1].eventType # last.eventType
  /\ NumHeld = 1 /\ HeldHids = {1} /\ tokens[1].eventType # last.eventType
  /\ stack = <<>>

\* C28: the context stored at the key of a registered listener is the
\* context its registration was made with (none when none was passed), and
\* every listener an emit pass invokes is invoked with the context of its
\* own registration, whatever was added and removed before.
C28_OwnContext ==
  /\ [](\A t \in Types : \A k \in 1..Len(listenersByType[t]) :
          listenersByType[t][k] # Hole
            => At(listenerContextsByType[t], k, Undef) = subs[listenersByType[t][k].rid].ctx)
  /\ [][(EmitStep /\ LiveListenerRuns')
          => last'.rid = Top'.rid /\ last'.ctx = subs[Top'.rid].ctx]_vars

\* C28 happens: three listeners were registered for a type, the first
\* without context, the second with one, the third without; the first was
\* removed, and an emit pass has just invoked the third without context.
C28_Witness ==
  /\ NumRegs = 3 /\ ActiveRids = {2, 3}
  /\ \A r \in 1..3 : subs[r].eventType = last.eventType
  /\ subs[1].ctx = Undef /\ subs[2].ctx # Undef /\ subs[3].ctx = Undef
  /\ last.op = "invoke" /\ last.rid = 3 /\ last.ctx = Undef

\* The active registrations of the function and the type of registration r.
SameCallable(r) ==
  {q \in ActiveRids : subs[q].fn = subs[r].fn /\ subs[q].eventType = subs[r].eventType}

\* The number of times a pass invoked the function fn.
TimesInvoked(seen, fn) == Cardinality({i \in 1..Len(seen) : subs[seen[i]].fn = fn})

\* C29: an emit call takes every active registration of the type, however
\* many of them hold the same function, and has invoked each function as
\* many times as it has registrations among them when it returns; remove()
\* on one subscription takes one registration of its function away and
\* leaves every other registration active.
C29_SlotIdentity ==
  /\ [][\A t \in Types2, x \in Args :
          (Emit(t, x) /\ Len(stack') > Len(stack))
            => Range(Top'.live0) = ActiveRidsOf(t) /\ Top'.seen = <<>>]_vars
  /\ [][EmitEnd
          => \A fn \in Fns :
               TimesInvoked(Top.seen, fn)
                 = Cardinality({r \in Range(Top.live0) : subs[r].fn = fn})]_vars
  /\ [][\A r \in 1..NumRegs :
          (SubscriptionRemove(r) /\ TopLevel /\ r \in ActiveRids)
            => /\ SameCallable(r)' = SameCallable(r) \ {r}
               /\ Cardinality(SameCallable(r)') = Cardinality(SameCallable(r)) - 1
               /\ ActiveRids' = ActiveRids \ {r}]_vars

\* C29 happens: one function was registered three times for a type, the
\* second of its subscriptions was removed, and an emit call of the type
\* has returned after invoking the function twice, for the two registrations
\* left.
C29_Witness ==
  /\ NumRegs = 3
  /\ \A r \in 1..3 : subs[r].fn = subs[1].fn /\ subs[r].eventType = last.eventType
  /\ ActiveRids = {1, 3}
  /\ last.op = "emitEnd" /\ last.seen = <<1, 3>>
  /\ stack = <<>>

C31_ReleaseTypeStopsReplay ==
  /\ [][\A t \in Types2 :
          ReleaseEventType(t) => HeldHids' = HeldHids \ HeldHidsOf(t)]_vars
  /\ [][(ReplayStep /\ ReplayedListenerRuns') => Top'.hid \in HeldHids]_vars

\* C31 fails in this way: the second record of a replay is being delivered
\* although the listener called releaseEventType for the type while it was
\* delivered the first, and no record is held any more.
C31_Witness ==
  /\ Len(stack) = 1 /\ Top.kind = "replay" /\ Top.running
  /\ Top.detached
  /\ Top.seen = <<1, 2>>
  /\ last.op = "replay" /\ last.hid = 2
  /\ HeldHids = {}

\* C32: a replay that addRetroactiveListener starts from a listener that is
\* itself replayed a record covers the whole array of its type; it delivers
\* held records of the type only, in the order they were held, and when it
\* returns it has delivered every record of the type held at its start that
\* is still held.  addListener during a replay starts no replay, no held
\* record is ever replayed to its listener, and the emit calls made later
\* invoke every active listener of their type.
C32_NestedRegistration ==
  /\ [][\A t \in Types2 :
          (AddRetroactiveListener(t, "f", Undef) /\ ReplayedListenerRuns)
            => /\ Top'.idx = 1 /\ Top'.len = Len(heldEvents[t])
               /\ Top'.held0 = NumHeld /\ Top'.seen = <<>>
               /\ Top'.rid \in ActiveRids']_vars
  /\ [][(ReplayStep /\ ReplayedListenerRuns')
          => /\ Top'.hid \in HeldHidsOf(Top.eventType)
             /\ Top'.hid <= Top.held0
             /\ \A h \in Range(Top.seen) : h < Top'.hid
             /\ subs[Top.rid].fn = "f"]_vars
  /\ [][ReplayEnd
          => \A h \in HeldHidsOf(Top.eventType) :
               h <= Top.held0 => h \in Range(Top.seen)]_vars
  /\ [][\A t \in Types2 :
          (AddListener(t, "g", Undef) /\ ReplayedListenerRuns)
            => stack' = stack /\ ActiveRids' = ActiveRids \cup {NumRegs + 1}]_vars
  /\ [][\A t \in Types2 :
          (Emit(t, "b") /\ ActiveRidsOf(t) # {})
            => Range(Top'.live0) = ActiveRidsOf(t)]_vars
  /\ [][EmitEnd => Top.seen = Top.live0]_vars

\* C32 happens: three records of a type are held; the first retroactive
\* listener, while it is delivered the second, has registered another
\* retroactive listener for the type, whose call is over after the replay of
\* all three records.
C32_Witness ==
  /\ Len(stack) = 1 /\ Top.kind = "replay" /\ Top.running
  /\ Top.rid = 1 /\ Top.seen = <<1, 2>>
  /\ NumHeld = 3 /\ HeldHids = {1, 2, 3}
  /\ \A h \in 1..3 : tokens[h].eventType = Top.eventType
  /\ last.op = "addRetroactiveListenerEnd" /\ last.rid = 2
  /\ last.eventType = Top.eventType /\ last.seen = <<1, 2, 3>>

\* The held records of the type of a replay that come after the ones it
\* has delivered.
HeldAhead(fr) ==
  {h \in HeldHidsOf(fr.eventType) : \A d \in Range(fr.seen) : h > d}

\* C33: a release, by token or of the current event, takes its one record
\* out of the held ones; every record a replay delivers is held when it is
\* delivered, so that a record released before the replay reached it is
\* skipped; the record delivered is the first one of the type still held
\* after those delivered before, whatever became of these, and the replay
\* ends only when every record held at its start and still held was
\* delivered.
C33_ReleaseDuringReplay ==
  /\ [][\A h \in 1..NumHeld : ReleaseEvent(h) => HeldHids' = HeldHids \ {h}]_vars
  /\ [][(ReleaseCurrentEvent /\ ReplayedListenerRuns)
          => HeldHids' = HeldHids \ {Top.hid}]_vars
  /\ [][(ReplayStep /\ ReplayedListenerRuns')
          => /\ Top'.hid \in HeldAhead(Top)
             /\ \A h \in HeldAhead(Top) : Top'.hid <= h]_vars
  /\ [][ReplayEnd => \A h \in HeldAhead(Top) : h > Top.held0]_vars

\* C33 happens: three records of a type are held; the listener of a replay,
\* while it is delivered the first, has started a nested replay, whose
\* listener is delivered the second record and has released it: the outer
\* replay has not reached it yet.
C33_Witness ==
  /\ Len(stack) = 2
  /\ stack[1].kind = "replay" /\ stack[1].seen = <<1>>
  /\ stack[2].kind = "replay" /\ stack[2].running /\ stack[2].seen = <<1, 2>>
  /\ stack[2].eventType = stack[1].eventType
  /\ NumHeld = 3 /\ \A h \in 1..3 : tokens[h].eventType = stack[1].eventType
  /\ HeldHids = {1, 3}
\* The replays that addRetroactiveListener started for a registration that
\* is still active, among the frames of the stack.
RetroactiveInProgress(t) ==
  {i \in 1..Len(stack) : /\ stack[i].kind = "replay" /\ stack[i].retro
                         /\ stack[i].eventType = t
                         /\ stack[i].rid \in ActiveRidsOf(t)}

\* C34: the listener of a registration made by addRetroactiveListener is
\* never called with a held event it was called with before.  Its replay
\* delivers each record once, none that emit delivered to it since the
\* replay started, and only records held before the registration; emit calls
\* it once in a pass and, while its replay is in progress, with no event the
\* replay has delivered; an emitAndHold is a pass for a new record, with
\* every registration whose replay of the type is in progress among the ones
\* of the pass; the registration is a new one, which no pass in progress has
\* called.
C34_AtMostOnce ==
  /\ [][(ReplayStep /\ ReplayedListenerRuns' /\ Top.retro)
          => /\ Top'.hid \notin Top.live
             /\ Top'.hid \notin Range(Top.seen)
             /\ Top'.hid <= Top.held0]_vars
  /\ [][(EmitStep /\ LiveListenerRuns' /\ Top.hid > 0)
          => /\ Top'.rid \notin Range(Top.seen)
             /\ \A i \in 1..Len(stack) :
                  (stack[i].kind = "replay" /\ stack[i].rid = Top'.rid)
                    => /\ Top.hid \notin Range(stack[i].seen) \cup stack[i].live
                       /\ Top.hid \in stack'[i].live]_vars
  /\ [][\A t \in Types : \A a \in Args :
          (EmitAndHold(t, a) /\ RetroactiveInProgress(t) # {})
            => /\ Len(stack') = Len(stack) + 1
               /\ Top'.hid = NumHeld + 1
               /\ \A i \in RetroactiveInProgress(t) :
                    stack[i].rid \in Range(Top'.live0)]_vars
  /\ [][\A t \in Types : \A fn \in Fns : \A ctx \in Ctxs :
          AddRetroactiveListener(t, fn, ctx)
            => /\ Top'.rid = NumRegs + 1
               /\ \A i \in 1..Len(stack) :
                    stack[i].kind = "emit" => Top'.rid \notin Range(stack[i].seen)]_vars

\* C34 happens: a listener was registered by addRetroactiveListener when
\* one event of the type was held and was replayed it; it has issued an
\* emitAndHold of the type and is running in its pass, called with the new
\* event, of which its replay has taken note; the replay will end there.
C34_Witness ==
  /\ Len(stack) = 2
  /\ stack[1].kind = "replay" /\ stack[1].retro /\ stack[1].rid = 1
  /\ stack[1].seen = <<1>> /\ stack[1].len = 1 /\ stack[1].live = {2}
  /\ stack[2].kind = "emit" /\ stack[2].running /\ stack[2].rid = 1
  /\ stack[2].hid = 2 /\ stack[2].eventType = stack[1].eventType
  /\ NumHeld = 2

\* The emitToListener calls in progress, innermost last.
ReplaysInProgress == {i \in 1..Len(stack) : stack[i].kind = "replay"}

\* The cursor that emitToListener pushes for the record a frame delivers.
CursorOf(fr) == [eventType |-> fr.eventType, index |-> fr.idx]

\* C35: while a listener runs, the depth counter, the length of the removal
\* stack and the length of the cursor stack are the number of
\* addRetroactiveListener calls in progress, and the top of the cursor stack
\* names the record that the innermost replay is delivering; the counter and
\* the removal stack are that number at any time; addRetroactiveListener
\* increments the counter and pushes a flag, leaving the cursors alone, and
\* at its end the counter, the removal stack and the cursor stack are as
\* before the call: no step changes an entry of the two stacks other than
\* the top of the removal stack.
C35_StacksInStep ==
  /\ [](/\ heldEventsEmitDepth = Cardinality(ReplaysInProgress)
        /\ Len(heldEventsRemovalStack) = Cardinality(ReplaysInProgress))
  /\ []((stack # <<>> /\ Top.running)
          => /\ Len(currentEventKey) = heldEventsEmitDepth
             /\ ReplaysInProgress # {}
                  => LET i == CHOOSE j \in ReplaysInProgress :
                                 \A k \in ReplaysInProgress : k <= j
                         rec == At(FrameHeld(stack[i]), stack[i].idx, HeldHole)
                     IN /\ currentEventKey[Len(currentEventKey)] = CursorOf(stack[i])
                        /\ rec # HeldHole => rec.hid = stack[i].hid)
  /\ [][\A t \in Types : \A fn \in Fns : \A ctx \in Ctxs :
          AddRetroactiveListener(t, fn, ctx)
            => /\ heldEventsEmitDepth' = heldEventsEmitDepth + 1
               /\ heldEventsRemovalStack' = Append(heldEventsRemovalStack, FALSE)
               /\ currentEventKey' = currentEventKey]_vars
  /\ [][(ReplayEnd /\ Top.retro)
          => /\ heldEventsEmitDepth' = heldEventsEmitDepth - 1
             /\ Len(heldEventsRemovalStack') = Len(heldEventsRemovalStack) - 1
             /\ Len(currentEventKey') = heldEventsEmitDepth'
             /\ currentEventKey' = currentEventKey]_vars
  /\ [][/\ \A i \in 1..Len(heldEventsRemovalStack) :
              (i <= Len(heldEventsRemovalStack') /\ i < Len(heldEventsRemovalStack))
                => heldEventsRemovalStack'[i] = heldEventsRemovalStack[i]
        /\ \A i \in 1..Len(currentEventKey) :
              i <= Len(currentEventKey') => currentEventKey'[i] = currentEventKey[i]]_vars

\* C35 fails: a replayed listener has called emit with a sixth argument and
\* the error has left addRetroactiveListener; no replay is in progress, a
\* listener invoked by emit is running, and the depth counter, the removal
\* stack and the cursor stack still have the entry of the call that was left.
C35_Witness ==
  /\ stack # <<>>
  /\ Top.kind = "emit" /\ Top.running
  /\ ReplaysInProgress = {}
  /\ heldEventsEmitDepth = 1
  /\ Len(heldEventsRemovalStack) = 1
  /\ Len(currentEventKey) = 1

\* The calls in progress, by the frames of the stack.
EmitInProgress == \E i \in 1..Len(stack) : stack[i].kind = "emit"

EmitAndHoldInProgress ==
  \E i \in 1..Len(stack) : stack[i].kind = "emit" /\ stack[i].hold

AddRetroactiveListenerInProgress ==
  \E i \in 1..Len(stack) : stack[i].kind = "replay" /\ stack[i].retro

\* C36: when no exception leaves a listener, the current subscription is
\* unset whenever no emit call is in progress, the current-event token is
\* null whenever no emitAndHold call is in progress, and the replay depth is
\* 0 and the removal stack and the cursor stack are empty whenever no
\* addRetroactiveListener call is in progress.
C36_TransientState ==
  /\ ~EmitInProgress => currentSubscription = [eventType |-> Undef, key |-> NoKey]
  /\ ~EmitAndHoldInProgress => currentEventToken = NoToken
  /\ ~AddRetroactiveListenerInProgress
       => /\ heldEventsEmitDepth = 0
          /\ heldEventsRemovalStack = <<>>
          /\ currentEventKey = <<>>

\* C36 fails: emitAndHold was called with a sixth argument and its caller
\* caught the error; no call is in progress, the current subscription is
\* unset and the depth is 0, and the token names the record that was stored.
C36_Witness ==
  /\ stack = <<>>
  /\ last.op = "throw"
  /\ currentSubscription = [eventType |-> Undef, key |-> NoKey]
  /\ heldEventsEmitDepth = 0
  /\ currentEventToken # NoToken
  /\ heldEvents[currentEventToken.eventType][currentEventToken.index] # HeldHole

\* C37: a pass of emit has invoked at most as many listeners as were active
\* for the type when it started, and a replay has delivered at most as many
\* records as were held for the type when it started, whatever the listeners
\* have registered or held since; a pass or replay in progress whose
\* listeners start none comes to its end.
C37_BoundedPass ==
  /\ [](\A i \in 1..Len(stack) :
          IF stack[i].kind = "emit"
          THEN Len(stack[i].seen) <= Len(stack[i].live0)
          ELSE Len(stack[i].seen) <= Cardinality(stack[i].hids0))
  /\ (stack # <<>>) ~> (stack = <<>>)

\* C37 happens: a pass that started with one listener for its type has
\* ended after invoking that one, while two more listeners were registered
\* for the type during the pass.
C37_Witness ==
  /\ last.op = "emitEnd"
  /\ last.live0 = <<1>> /\ last.seen = <<1>>
  /\ {r \in 1..NumRegs : subs[r].eventType = last.eventType} = {1, 2, 3}

\* C38: emit with a defined sixth data argument raises an error, starts no
\* pass and leaves the registry as it was; emitAndHold with a defined sixth
\* data argument does the same, holds no record and, made outside any
\* emitAndHold pass, leaves the token null; releaseCurrentEvent made by the
\* top level releases nothing.
C38_SixthArgument ==
  /\ [][\A t \in Types2 :
          EmitSixth(t, "a")
            => /\ last'.op = "throw"
               /\ Len(stack') <= Len(stack)
               /\ UNCHANGED <<listenersByType, listenerContextsByType>>]_vars
  /\ [][\A t \in Types2 :
          EmitAndHoldSixth(t, "a")
            => /\ last'.op = "throw"
               /\ Len(stack') <= Len(stack)
               /\ UNCHANGED <<listenersByType, listenerContextsByType>>
               /\ HeldHids' = HeldHids
               /\ ~EmitAndHoldInProgress => currentEventToken' = NoToken]_vars
  /\ [][(HoldingReleaseCurrentEvent /\ TopLevel) => HeldHids' = HeldHids]_vars

\* C38 happens: no listener was ever registered and no call is in progress,
\* the last call has raised the error, and yet a record is held and the
\* token is set: emitAndHold was called with a sixth argument.
C38_Witness ==
  /\ stack = <<>>
  /\ subs = <<>>
  /\ last.op = "throw"
  /\ currentEventToken # NoToken
  /\ HeldHids # {}

\* C39: addListener hands out the key after the last slot of the list of
\* the type, used or emptied, which is greater than the key of every
\* registration still in the list, and holdEvent the index after the last
\* slot of the array of the type; a list or an array gets shorter only when
\* removeAllListeners or releaseEventType clears it, so that no key it has
\* handed out since is handed out again.
C39_KeysNotReused ==
  /\ [][\A t \in Types2 : \A ctx \in Ctxs :
          AddListener(t, "f", ctx)
            => /\ subs'[NumRegs + 1].key = Len(listenersByType[t]) + 1
               /\ Len(listenersByType'[t]) = Len(listenersByType[t]) + 1
               /\ \A r \in ActiveRidsOf(t) : subs'[NumRegs + 1].key > subs[r].key]_vars
  /\ [][\A t \in Types2 :
          HoldEvent(t, "a")
            => /\ tokens'[NumHeld + 1].index = Len(heldEvents[t]) + 1
               /\ Len(heldEvents'[t]) = Len(heldEvents[t]) + 1
               /\ \A h \in HeldHidsOf(t) : tokens'[NumHeld + 1].index > tokens[h].index]_vars
  /\ [][\A t \in Types :
          Len(listenersByType'[t]) < Len(listenersByType[t])
            => RemoveAllListeners(t) /\ listenersByType'[t] = <<>>]_vars
  /\ [][\A t \in Types :
          Len(heldEvents'[t]) < Len(heldEvents[t])
            => ReleaseEventType(t) /\ heldEvents'[t] = <<>>]_vars

\* C39 happens: the first listener of a type was removed and the second
\* one has key 2, after the emptied slot; the first record of a type was
\* released and the second one has index 2.
C39_Witness ==
  \E t \in Types2 : \E u \in Types2 :
    /\ Len(listenersByType[t]) = 2
    /\ listenersByType[t][1] = Hole /\ listenersByType[t][2].rid = 2
    /\ subs[1].eventType = t /\ subs[1].key = 1 /\ subs[2].key = 2
    /\ Len(heldEvents[u]) = 2
    /\ heldEvents[u][1] = HeldHole /\ heldEvents[u][2].hid = 2
    /\ tokens[1].eventType = u /\ tokens[1].index = 1 /\ tokens[2].index = 2
====
